---------------------------- MODULE OfficeProofs ----------------------------
(***************************************************************************)
(* Proofs about the parts of the office, for any number of users, requests *)
(* and rows: bank reconciliation, what is paid to the platform, leave, and *)
(* plans with the partners' wallets.                                       *)
(***************************************************************************)
EXTENDS Office, SequenceTheorems, SumTheorems

-----------------------------------------------------------------------------
(* Bank reconciliation: no line of the books is reconciled twice and what  *)
(* is signed off stays as it is, unless a rule was gone around.            *)

SheetStatuses == {"none", "open", "done", "discarded"}
MatchStatuses == {"proposed", "confirmed", "rejected"}
Requests == {"refresh", "import", "populate", "tick", "delete", "auto"}

Line == [sheet : Sheets, of : Rows \cup Books, cleared : BOOLEAN, deleted : BOOLEAN, posted : BOOLEAN,
         with : Books \cup {NoBook}]
Match == [sheet : Sheets, line : Nat, book : Books \cup {NoBook}, status : MatchStatuses, deleted : BOOLEAN]
View == [lines : Seq(Line), matches : Seq(Match), booked : SUBSET Books]
Read == [step : {"read"}, op : Requests, sheet : Sheets, figure : Int, status : {"open", "done"}, seen : View]

\* A request that looks at the status found the sheet open, and the lines it has read are
\* still where they were: lines are marked as deleted, never removed.
Grounded(u) ==
    /\ work[u].op \in Guarded => work[u].status = "open"
    /\ \A n \in DOMAIN work[u].seen.lines : n \in DOMAIN lines /\ work[u].seen.lines[n].sheet = lines[n].sheet

SheetsOK == sheet \in [Sheets -> [status : SheetStatuses, figure : Int]] /\ booked \subseteq Books /\ requests \in 0..MaxRequests
LinesOK == lines \in Seq(Line)
MatchesOK ==
    /\ matches \in Seq(Match)
    /\ \A m \in DOMAIN matches : matches[m].line \in DOMAIN lines /\ lines[matches[m].line].sheet = matches[m].sheet
WorkOK == work \in [Users -> {Idle} \cup Read] /\ \A u \in Users : work[u] # Idle => Grounded(u)

\* What a line was confirmed with is what a live, confirmed match of the line says, and no two
\* live matches are about one line of the books.
Backed ==
    \A n \in Live(lines) : lines[n].with # NoBook =>
        \E m \in Live(matches) : matches[m].line = n /\ matches[m].status = "confirmed" /\ matches[m].book = lines[n].with
Unique ==
    \A m, k \in Live(matches) : matches[m].book # NoBook /\ matches[m].book = matches[k].book => m = k

Clean == lapses \ {"unguarded"} = {}
IInv == SheetsOK /\ LinesOK /\ MatchesOK /\ WorkOK /\ (Clean => Backed /\ Unique)

-----------------------------------------------------------------------------
(* Sequences of lines and of matches.                                      *)

LEMMA LineFields ==
    ASSUME NEW x \in Line, NEW b \in BOOLEAN, NEW w \in Books \cup {NoBook}
    PROVE  /\ [x EXCEPT !.deleted = b] \in Line /\ [x EXCEPT !.deleted = b].deleted = b
           /\ [x EXCEPT !.deleted = b].sheet = x.sheet /\ [x EXCEPT !.deleted = b].with = x.with
           /\ [x EXCEPT !.deleted = b].cleared = x.cleared
BY DEF Line

LEMMA MatchFields ==
    ASSUME NEW x \in Match, NEW b \in BOOLEAN
    PROVE  /\ [x EXCEPT !.deleted = b] \in Match /\ [x EXCEPT !.deleted = b].deleted = b
           /\ [x EXCEPT !.deleted = b].sheet = x.sheet /\ [x EXCEPT !.deleted = b].line = x.line
           /\ [x EXCEPT !.deleted = b].book = x.book /\ [x EXCEPT !.deleted = b].status = x.status
BY DEF Match

LEMMA DeletingLines ==
    ASSUME NEW s \in Seq(Line), NEW ns
    PROVE  /\ Deleting(s, ns) \in Seq(Line) /\ DOMAIN Deleting(s, ns) = DOMAIN s
           /\ \A n \in DOMAIN s :
                 /\ Deleting(s, ns)[n].deleted <=> s[n].deleted \/ n \in ns
                 /\ Deleting(s, ns)[n].sheet = s[n].sheet /\ Deleting(s, ns)[n].with = s[n].with
                 /\ Deleting(s, ns)[n].cleared = s[n].cleared
<1>1. DOMAIN s = 1..Len(s) /\ Len(s) \in Nat /\ \A n \in 1..Len(s) : s[n] \in Line
  OBVIOUS
<1> DEFINE e(n) == [s[n] EXCEPT !.deleted = @ \/ n \in ns]
<1>2. Deleting(s, ns) = [n \in 1..Len(s) |-> e(n)]
  BY <1>1 DEF Deleting
<1>3. ASSUME NEW n \in 1..Len(s)
      PROVE  /\ e(n) \in Line /\ (e(n).deleted <=> s[n].deleted \/ n \in ns)
             /\ e(n).sheet = s[n].sheet /\ e(n).with = s[n].with /\ e(n).cleared = s[n].cleared
  <2>1. PICK b \in BOOLEAN : b <=> s[n].deleted \/ n \in ns
    OBVIOUS
  <2>2. (s[n].deleted \/ n \in ns) = b
    BY <2>1
  <2>3. e(n) = [s[n] EXCEPT !.deleted = b]
    BY <2>2
  <2>4. s[n] \in Line
    BY <1>1
  <2> HIDE DEF e
  <2> QED BY <2>1, <2>3, <2>4, LineFields
<1> HIDE DEF e
<1>4. [n \in 1..Len(s) |-> e(n)] \in Seq(Line)
  BY <1>1, <1>3
<1> QED BY <1>1, <1>2, <1>3, <1>4

LEMMA DeletingMatches ==
    ASSUME NEW s \in Seq(Match), NEW ns
    PROVE  /\ Deleting(s, ns) \in Seq(Match) /\ DOMAIN Deleting(s, ns) = DOMAIN s
           /\ \A n \in DOMAIN s :
                 /\ Deleting(s, ns)[n].deleted <=> s[n].deleted \/ n \in ns
                 /\ Deleting(s, ns)[n].sheet = s[n].sheet /\ Deleting(s, ns)[n].line = s[n].line
                 /\ Deleting(s, ns)[n].book = s[n].book /\ Deleting(s, ns)[n].status = s[n].status
<1>1. DOMAIN s = 1..Len(s) /\ Len(s) \in Nat /\ \A n \in 1..Len(s) : s[n] \in Match
  OBVIOUS
<1> DEFINE e(n) == [s[n] EXCEPT !.deleted = @ \/ n \in ns]
<1>2. Deleting(s, ns) = [n \in 1..Len(s) |-> e(n)]
  BY <1>1 DEF Deleting
<1>3. ASSUME NEW n \in 1..Len(s)
      PROVE  /\ e(n) \in Match /\ (e(n).deleted <=> s[n].deleted \/ n \in ns)
             /\ e(n).sheet = s[n].sheet /\ e(n).line = s[n].line /\ e(n).book = s[n].book /\ e(n).status = s[n].status
  <2>1. PICK b \in BOOLEAN : b <=> s[n].deleted \/ n \in ns
    OBVIOUS
  <2>2. (s[n].deleted \/ n \in ns) = b
    BY <2>1
  <2>3. e(n) = [s[n] EXCEPT !.deleted = b]
    BY <2>2
  <2>4. s[n] \in Match
    BY <1>1
  <2> HIDE DEF e
  <2> QED BY <2>1, <2>3, <2>4, MatchFields
<1> HIDE DEF e
<1>4. [n \in 1..Len(s) |-> e(n)] \in Seq(Match)
  BY <1>1, <1>3
<1> QED BY <1>1, <1>2, <1>3, <1>4

-----------------------------------------------------------------------------
(* The parts of the invariant, step by step.                               *)

\* Lines stay on their sheet.
LinesKept ==
    lines' \in Seq(Line) /\ \A n \in DOMAIN lines : n \in DOMAIN lines' /\ lines'[n].sheet = lines[n].sheet

LEMMA BalanceIsInt == ASSUME SheetsOK PROVE Balance \in Int
<1>1. IsFiniteSet(booked) /\ \A b \in booked : Amount[b] \in Int
  BY ReconciliationAssumption, FS_Subset DEF SheetsOK
<1>2. Balance = Sum(Amount, booked)
  BY DEF Balance, Sum
<1> QED BY <1>1, <1>2, SumRemove

LEMMA WorkKept ==
    ASSUME WorkOK, LinesKept, UNCHANGED work \/ \E u \in Users : Finished(u) PROVE WorkOK'
<1>1. work' \in [Users -> {Idle} \cup Read] /\ \A u \in Users : work'[u] = Idle \/ work'[u] = work[u]
  BY DEF WorkOK, Finished
<1>2. ASSUME NEW u \in Users, work'[u] # Idle PROVE Grounded(u)'
  BY <1>1, <1>2 DEF WorkOK, Grounded, LinesKept
<1> QED BY <1>1, <1>2 DEF WorkOK

\* A request that is under way has read what it says it has read.
LEMMA InWork ==
    ASSUME LinesOK, WorkOK, NEW u \in Users, work[u] # Idle
    PROVE  /\ work[u].op \in Requests /\ work[u].sheet \in Sheets /\ work[u].figure \in Int
           /\ work[u].status \in {"open", "done"} /\ work[u].seen \in View /\ Grounded(u)
           /\ \A n \in SeenLines(u) : n \in DOMAIN lines /\ lines[n].sheet = work[u].sheet
<1>1. work[u] \in Read /\ Grounded(u)
  BY DEF WorkOK
<1>2. \A n \in SeenLines(u) : n \in DOMAIN lines /\ lines[n].sheet = work[u].sheet
  BY <1>1 DEF Grounded, SeenLines, Live
<1> QED BY <1>1, <1>2 DEF Read

LEMMA MatchesKept ==
    ASSUME MatchesOK, LinesKept, matches' \in Seq(Match),
           \A m \in DOMAIN matches' : m \in DOMAIN matches /\ matches'[m].line = matches[m].line /\ matches'[m].sheet = matches[m].sheet
    PROVE  MatchesOK'
BY DEF MatchesOK, LinesKept

\* Nothing is confirmed, and a confirmed match is deleted only with its line.
LEMMA BackedKept ==
    ASSUME Backed,
           \A n \in Live(lines)' : lines'[n].with # NoBook => n \in Live(lines) /\ lines'[n].with = lines[n].with,
           \A m \in Live(matches) : matches[m].status = "confirmed" /\ matches[m].line \in Live(lines)' =>
               /\ m \in Live(matches)' /\ matches'[m].line = matches[m].line
               /\ matches'[m].book = matches[m].book /\ matches'[m].status = "confirmed"
    PROVE  Backed'
<1> SUFFICES ASSUME NEW n \in Live(lines)', lines'[n].with # NoBook
             PROVE  \E m \in Live(matches)' : matches'[m].line = n /\ matches'[m].status = "confirmed" /\ matches'[m].book = lines'[n].with
  BY DEF Backed
<1>1. PICK m \in Live(matches) : matches[m].line = n /\ matches[m].status = "confirmed" /\ matches[m].book = lines[n].with
  BY DEF Backed
<1> QED BY <1>1

LEMMA UniqueKept ==
    ASSUME Unique, \A m \in Live(matches)' : m \in Live(matches) /\ matches'[m].book = matches[m].book PROVE Unique'
BY DEF Unique

LEMMA CleanBefore == ASSUME lapses \subseteq lapses', Clean' PROVE Clean
BY DEF Clean

\* A step that touches neither the lines nor the matches.
LEMMA PaperOK ==
    ASSUME IInv, UNCHANGED <<lines, matches>>, lapses \subseteq lapses', SheetsOK', UNCHANGED work \/ \E u \in Users : Finished(u)
    PROVE  IInv'
<1>1. LinesKept /\ LinesOK'
  BY DEF LinesKept, IInv, LinesOK
<1>2. WorkOK' /\ MatchesOK'
  BY <1>1, WorkKept DEF IInv, MatchesOK
<1>3. (Clean => Backed /\ Unique) => (Clean' => Backed' /\ Unique')
  BY CleanBefore DEF Backed, Unique, Live
<1> QED BY <1>1, <1>2, <1>3 DEF IInv

LEMMA StartOK == ASSUME IInv, NEW s \in Sheets, Start(s) PROVE IInv'
<1>1. /\ sheet' = [sheet EXCEPT ![s] = [status |-> "open", figure |-> Balance]]
      /\ lines' = Deleting(lines, LinesOf(s)) /\ matches' = Deleting(matches, MatchesOf(s))
      /\ UNCHANGED <<booked, work, requests, lapses>>
  BY DEF Start
<1>2. SheetsOK'
  BY <1>1, BalanceIsInt DEF IInv, SheetsOK, SheetStatuses
<1>3. LinesKept /\ LinesOK'
  BY <1>1, DeletingLines DEF LinesKept, IInv, LinesOK
<1>4. WorkOK' /\ MatchesOK'
  <2>1. MatchesOK'
    BY <1>1, <1>3, DeletingMatches, MatchesKept DEF IInv, MatchesOK
  <2> QED BY <1>1, <1>3, <2>1, WorkKept DEF IInv
<1>5. ASSUME Clean' PROVE Backed' /\ Unique'
  <2>1. Backed /\ Unique
    BY <1>1, <1>5, CleanBefore DEF IInv
  <2>2. Unique'
    BY <1>1, <2>1, DeletingMatches, UniqueKept DEF IInv, MatchesOK, Live
  <2>3. \A n \in Live(lines)' : n \in Live(lines) /\ n \notin LinesOf(s) /\ lines'[n].with = lines[n].with
    BY <1>1, DeletingLines DEF IInv, LinesOK, Live
  <2>4. ASSUME NEW m \in Live(matches), matches[m].status = "confirmed", matches[m].line \in Live(lines)'
        PROVE  /\ m \in Live(matches)' /\ matches'[m].line = matches[m].line
               /\ matches'[m].book = matches[m].book /\ matches'[m].status = "confirmed"
    <3>1. m \notin MatchesOf(s)
      BY <2>3, <2>4 DEF IInv, MatchesOK, MatchesOf, LinesOf, Live
    <3> QED BY <1>1, <2>4, <3>1, DeletingMatches DEF IInv, MatchesOK, Live
  <2>5. Backed'
    BY <2>1, <2>3, <2>4, BackedKept
  <2> QED BY <2>2, <2>5
<1> QED BY <1>2, <1>3, <1>4, <1>5 DEF IInv

LEMMA BeginOK ==
    ASSUME IInv, NEW u \in Users, NEW op \in Requests, NEW s \in Sheets, Begin(u, op, s) PROVE IInv'
<1> DEFINE view == [lines |-> lines, matches |-> matches, booked |-> booked]
           r == [step |-> "read", op |-> op, sheet |-> s, figure |-> Balance, status |-> sheet[s].status, seen |-> view]
<1>1. /\ work' = [work EXCEPT ![u] = r] /\ UNCHANGED <<sheet, lines, matches, booked, lapses>>
      /\ sheet[s].status \in {"open", "done"} /\ (op \in Guarded => sheet[s].status = "open")
      /\ requests < MaxRequests /\ requests' = requests + 1
  BY DEF Begin, Count
<1>2. view \in View
  BY DEF IInv, LinesOK, MatchesOK, SheetsOK, View
<1>3. Balance \in Int
  BY BalanceIsInt DEF IInv
<1>4. r.op = op /\ r.status = sheet[s].status /\ r.seen.lines = lines
  OBVIOUS
<1>5. r \in Read
  <2> HIDE DEF view
  <2> QED BY <1>1, <1>2, <1>3 DEF Read
<1> HIDE DEF r
<1>6. /\ work' \in [Users -> {Idle} \cup Read] /\ work'[u] = r
      /\ \A v \in Users : v # u => work'[v] = work[v]
  BY <1>1, <1>5 DEF IInv, WorkOK
<1>7. Grounded(u)'
  BY <1>1, <1>4, <1>6 DEF Grounded
<1>8. ASSUME NEW v \in Users, v # u, work'[v] # Idle PROVE Grounded(v)'
  BY <1>1, <1>6, <1>8 DEF IInv, WorkOK, Grounded
<1>9. SheetsOK'
  BY <1>1, ReconciliationAssumption DEF IInv, SheetsOK
<1>10. LinesOK' /\ MatchesOK' /\ (Clean' => Backed' /\ Unique')
  BY <1>1 DEF IInv, LinesOK, MatchesOK, Clean, Backed, Unique, Live
<1> QED BY <1>6, <1>7, <1>8, <1>9, <1>10 DEF IInv, WorkOK

LEMMA DiscardOK == ASSUME IInv, NEW s \in Sheets, Discard(s) \/ Reopen(s) PROVE IInv'
<1>1. /\ sheet' \in {[sheet EXCEPT ![s].status = "discarded"], [sheet EXCEPT ![s].status = "open"]}
      /\ requests < MaxRequests /\ requests' = requests + 1 /\ UNCHANGED <<lines, matches, booked, work, lapses>>
  BY DEF Discard, Reopen, Count
<1>2. SheetsOK'
  BY <1>1, ReconciliationAssumption DEF IInv, SheetsOK, SheetStatuses
<1> QED BY <1>1, <1>2, PaperOK

LEMMA SignOffOK == ASSUME IInv, NEW s \in Sheets, SignOff(s) PROVE IInv'
<1>1. SheetsOK'
  BY BalanceIsInt DEF SignOff, IInv, SheetsOK, SheetStatuses
<1> QED BY <1>1, PaperOK DEF SignOff

LEMMA BookOK == ASSUME IInv, NEW b \in Books, Book(b) PROVE IInv'
<1>1. SheetsOK'
  BY DEF Book, IInv, SheetsOK
<1> QED BY <1>1, PaperOK DEF Book

LEMMA RefreshOK == ASSUME IInv, NEW u \in Users, Refresh(u) PROVE IInv'
<1>1. work[u] # Idle /\ sheet' = [sheet EXCEPT ![work[u].sheet].figure = work[u].figure]
  BY DEF Refresh, Doing
<1>2. work[u].figure \in Int /\ work[u].sheet \in Sheets
  BY <1>1, InWork DEF IInv
<1>3. SheetsOK'
  BY <1>1, <1>2 DEF Refresh, IInv, SheetsOK
<1> QED BY <1>3, PaperOK DEF Refresh

\* A step that adds or edits lines, and confirms none.
LEMMA LinesOnlyOK ==
    ASSUME IInv, LinesKept, UNCHANGED matches, SheetsOK', lapses \subseteq lapses',
           UNCHANGED work \/ \E u \in Users : Finished(u),
           \A n \in Live(lines)' : lines'[n].with # NoBook => n \in Live(lines) /\ lines'[n].with = lines[n].with
    PROVE  IInv'
<1>1. WorkOK' /\ LinesOK' /\ MatchesOK'
  BY WorkKept DEF IInv, LinesKept, LinesOK, MatchesOK
<1>2. ASSUME Clean' PROVE Backed' /\ Unique'
  <2>1. Backed /\ Unique
    BY <1>2, CleanBefore DEF IInv
  <2>2. Unique'
    BY <2>1 DEF Unique, Live
  <2>3. \A m \in Live(matches) : m \in Live(matches)' /\ matches'[m] = matches[m]
    BY DEF Live
  <2>4. Backed'
    BY <2>1, <2>3, BackedKept
  <2> QED BY <2>2, <2>4
<1> QED BY <1>1, <1>2 DEF IInv

LEMMA AddedIsLine ==
    ASSUME NEW s \in Sheets, NEW x \in Rows \cup Books
    PROVE  Added(s, x) \in Line /\ Added(s, x).with = NoBook /\ Added(s, x).sheet = s
BY DEF Added, Line

LEMMA Lengthened ==
    ASSUME NEW q \in Seq(Line), NEW f \in Seq(Line), NEW r, r = q \o f
    PROVE  \A i \in DOMAIN q : i \in DOMAIN r /\ r[i] = q[i]
BY ConcatProperties

\* New lines at the end.
LEMMA Appends ==
    ASSUME LinesOK, NEW n \in Nat, NEW f \in [1..n -> Line], \A k \in 1..n : f[k].with = NoBook, lines' = lines \o f
    PROVE  /\ LinesKept
           /\ \A i \in DOMAIN lines : lines'[i] = lines[i]
           /\ \A i \in DOMAIN lines' \ DOMAIN lines : \E k \in 1..n : lines'[i] = f[k]
           /\ \A i \in Live(lines)' : lines'[i].with # NoBook => i \in Live(lines) /\ lines'[i].with = lines[i].with
<1>1. f \in Seq(Line) /\ Len(f) = n
  OBVIOUS
<1>2. /\ lines' \in Seq(Line) /\ Len(lines') = Len(lines) + n /\ Len(lines) \in Nat
      /\ DOMAIN lines = 1..Len(lines) /\ DOMAIN lines' = 1..(Len(lines) + n)
      /\ \A i \in 1..Len(lines) : lines'[i] = lines[i]
      /\ \A k \in 1..n : lines'[Len(lines) + k] = f[k]
  <2>1. lines \in Seq(Line) /\ Len(lines) \in Nat /\ DOMAIN lines = 1..Len(lines)
    BY DEF LinesOK
  <2>2. lines' \in Seq(Line) /\ Len(lines') = Len(lines) + n
    <3>1. lines \o f \in Seq(Line)
      BY <1>1, <2>1
    <3>2. Len(lines \o f) = Len(lines) + Len(f)
      BY <1>1, <2>1, ConcatProperties
    <3> QED BY <1>1, <3>1, <3>2
  <2>3. \A i \in 1..(Len(lines) + n) : lines'[i] = IF i <= Len(lines) THEN lines[i] ELSE f[i - Len(lines)]
    BY <1>1, <2>1
  <2>4. \A i \in 1..Len(lines) : lines'[i] = lines[i]
    BY <2>1, <2>3
  <2>5. ASSUME NEW k \in 1..n PROVE lines'[Len(lines) + k] = f[k]
    <3>1. Len(lines) + k \in 1..(Len(lines) + n) /\ ~(Len(lines) + k <= Len(lines)) /\ (Len(lines) + k) - Len(lines) = k
      BY <2>1
    <3> QED BY <2>3, <3>1
  <2> QED BY <2>1, <2>2, <2>4, <2>5
<1>3. \A i \in DOMAIN lines : lines'[i] = lines[i] /\ i \in DOMAIN lines'
  BY <1>2
<1>4. ASSUME NEW i \in DOMAIN lines' \ DOMAIN lines PROVE \E k \in 1..n : lines'[i] = f[k]
  <2>1. i - Len(lines) \in 1..n /\ i = Len(lines) + (i - Len(lines))
    BY <1>2
  <2> QED BY <1>2, <2>1
<1>5. LinesKept
  BY <1>2, <1>3 DEF LinesKept
<1> QED BY <1>3, <1>4, <1>5 DEF Live

LEMMA ImportOK == ASSUME IInv, NEW u \in Users, NEW row \in Rows, Import(u, row) PROVE IInv'
<1> DEFINE x == Added(work[u].sheet, row)
           f == [k \in 1..1 |-> x]
<1>1. /\ work[u] # Idle /\ lines' = Append(lines, x) /\ lapses \subseteq lapses' /\ Finished(u)
      /\ UNCHANGED <<sheet, matches, booked, requests>>
  BY DEF Import, Doing
<1>2. x \in Line /\ x.with = NoBook
  BY <1>1, InWork, AddedIsLine DEF IInv
<1> HIDE DEF x
<1>3. lines' = lines \o f /\ f \in [1..1 -> Line] /\ \A k \in 1..1 : f[k].with = NoBook
  BY <1>1, <1>2 DEF IInv, LinesOK
<1> HIDE DEF f
<1>4. LinesKept /\ \A n \in Live(lines)' : lines'[n].with # NoBook => n \in Live(lines) /\ lines'[n].with = lines[n].with
  BY <1>3, Appends DEF IInv
<1>5. SheetsOK'
  BY <1>1 DEF IInv, SheetsOK
<1> QED BY <1>1, <1>4, <1>5, LinesOnlyOK

LEMMA PopulateOK ==
    ASSUME IInv, NEW u \in Users, Populate(u)
    PROVE  IInv' /\ \A n \in DOMAIN lines' \ DOMAIN lines : lines'[n].sheet = work[u].sheet
<1>1. work[u] # Idle /\ lapses \subseteq lapses' /\ Finished(u) /\ UNCHANGED <<sheet, matches, booked, requests>>
  BY DEF Populate, Doing
<1>2. work[u].sheet \in Sheets /\ Missing(u) \subseteq Books
  BY <1>1, InWork DEF IInv, Missing, View
<1>3. Cardinality(Missing(u)) \in Nat
  BY <1>2, ReconciliationAssumption, FS_Subset, FS_CardinalityType
<1>4. PICK order \in [1..Cardinality(Missing(u)) -> Missing(u)] :
         lines' = lines \o [k \in DOMAIN order |-> Added(work[u].sheet, order[k])]
  BY DEF Populate
<1> DEFINE f == [k \in 1..Cardinality(Missing(u)) |-> Added(work[u].sheet, order[k])]
<1>5. \A k \in 1..Cardinality(Missing(u)) :
         /\ Added(work[u].sheet, order[k]) \in Line /\ Added(work[u].sheet, order[k]).with = NoBook
         /\ Added(work[u].sheet, order[k]).sheet = work[u].sheet
  BY <1>2, AddedIsLine
<1>6. /\ lines' = lines \o f /\ f \in [1..Cardinality(Missing(u)) -> Line]
      /\ \A k \in 1..Cardinality(Missing(u)) : f[k].with = NoBook /\ f[k].sheet = work[u].sheet
  BY <1>4, <1>5
<1> HIDE DEF f
<1>7. /\ LinesKept /\ \A n \in Live(lines)' : lines'[n].with # NoBook => n \in Live(lines) /\ lines'[n].with = lines[n].with
      /\ \A n \in DOMAIN lines' \ DOMAIN lines : lines'[n].sheet = work[u].sheet
  <2> DEFINE c == Cardinality(Missing(u))
  <2>1. c \in Nat /\ f \in [1..c -> Line] /\ (\A k \in 1..c : f[k].with = NoBook /\ f[k].sheet = work[u].sheet) /\ LinesOK
    BY <1>3, <1>6 DEF IInv
  <2> HIDE DEF c
  <2>2. /\ LinesKept /\ \A n \in Live(lines)' : lines'[n].with # NoBook => n \in Live(lines) /\ lines'[n].with = lines[n].with
        /\ \A n \in DOMAIN lines' \ DOMAIN lines : \E k \in 1..c : lines'[n] = f[k]
    BY <1>6, <2>1, Appends
  <2> QED BY <2>1, <2>2
<1>8. SheetsOK'
  BY <1>1 DEF IInv, SheetsOK
<1> QED BY <1>1, <1>7, <1>8, LinesOnlyOK

LEMMA TickOK == ASSUME IInv, NEW u \in Users, NEW n \in DOMAIN lines, NEW flag \in BOOLEAN, Tick(u, n, flag) PROVE IInv'
<1>1. /\ lines' = [lines EXCEPT ![n].cleared = flag] /\ lapses \subseteq lapses' /\ Finished(u)
      /\ UNCHANGED <<sheet, matches, booked, requests>>
  BY DEF Tick
<1> DEFINE x == [lines[n] EXCEPT !.cleared = flag]
<1>2. lines[n] \in Line /\ DOMAIN lines = 1..Len(lines)
  BY DEF IInv, LinesOK
<1>3. x \in Line /\ x.with = lines[n].with /\ x.sheet = lines[n].sheet /\ x.deleted = lines[n].deleted
  BY <1>2 DEF Line
<1>4. lines' = [lines EXCEPT ![n] = x]
  BY <1>1
<1> HIDE DEF x
<1>5. LinesKept /\ \A k \in Live(lines)' : k \in Live(lines) /\ lines'[k].with = lines[k].with
  BY <1>3, <1>4 DEF IInv, LinesOK, LinesKept, Live
<1>6. SheetsOK'
  BY <1>1 DEF IInv, SheetsOK
<1> QED BY <1>1, <1>5, <1>6, LinesOnlyOK

LEMMA PostToLedgerOK == ASSUME IInv, NEW n \in DOMAIN lines, PostToLedger(n) PROVE IInv'
<1>1. /\ lines' = [lines EXCEPT ![n].cleared = TRUE, ![n].posted = TRUE] /\ lapses \subseteq lapses'
      /\ UNCHANGED <<sheet, matches, work, requests>>
      /\ booked' = booked \/ \E b \in Books : booked' = booked \cup {b}
  BY DEF PostToLedger
<1> DEFINE x == [lines[n] EXCEPT !.cleared = TRUE, !.posted = TRUE]
<1>2. lines[n] \in Line
  BY DEF IInv, LinesOK
<1>3. x \in Line /\ x.with = lines[n].with /\ x.sheet = lines[n].sheet /\ x.deleted = lines[n].deleted
  BY <1>2 DEF Line
<1>4. lines' = [lines EXCEPT ![n] = x]
  BY <1>1 DEF IInv, LinesOK
<1> HIDE DEF x
<1>5. LinesKept /\ \A k \in Live(lines)' : k \in Live(lines) /\ lines'[k].with = lines[k].with
  BY <1>3, <1>4 DEF IInv, LinesOK, LinesKept, Live
<1>6. SheetsOK'
  BY <1>1 DEF IInv, SheetsOK
<1> QED BY <1>1, <1>5, <1>6, LinesOnlyOK

LEMMA DeleteLineOK == ASSUME IInv, NEW u \in Users, NEW n \in DOMAIN lines, DeleteLine(u, n) PROVE IInv'
<1> DEFINE about == {m \in Live(matches) : matches[m].line = n}
<1>1. /\ lines' = Deleting(lines, {n}) /\ matches' = Deleting(matches, about) /\ lapses \subseteq lapses' /\ Finished(u)
      /\ UNCHANGED <<sheet, booked, requests>>
  BY DEF DeleteLine
<1>2. SheetsOK'
  BY <1>1 DEF IInv, SheetsOK
<1>3. LinesKept /\ LinesOK'
  BY <1>1, DeletingLines DEF LinesKept, IInv, LinesOK
<1>4. WorkOK' /\ MatchesOK'
  <2> HIDE DEF about
  <2>1. matches \in Seq(Match)
    BY DEF IInv, MatchesOK
  <2>2. /\ matches' \in Seq(Match) /\ DOMAIN matches' = DOMAIN matches
        /\ \A m \in DOMAIN matches : matches'[m].line = matches[m].line /\ matches'[m].sheet = matches[m].sheet
    BY <1>1, <2>1, DeletingMatches
  <2>3. MatchesOK'
    BY <1>3, <2>2, MatchesKept DEF IInv
  <2> QED BY <1>1, <1>3, <2>3, WorkKept DEF IInv
<1>5. ASSUME Clean' PROVE Backed' /\ Unique'
  <2>1. Backed /\ Unique
    BY <1>1, <1>5, CleanBefore DEF IInv
  <2>2. Unique'
    BY <1>1, <2>1, DeletingMatches, UniqueKept DEF IInv, MatchesOK, Live
  <2>3. \A k \in Live(lines)' : k \in Live(lines) /\ k # n /\ lines'[k].with = lines[k].with
    BY <1>1, DeletingLines DEF IInv, LinesOK, Live
  <2>4. ASSUME NEW m \in Live(matches), matches[m].status = "confirmed", matches[m].line \in Live(lines)'
        PROVE  /\ m \in Live(matches)' /\ matches'[m].line = matches[m].line
               /\ matches'[m].book = matches[m].book /\ matches'[m].status = "confirmed"
    <3>1. m \notin about
      BY <2>3, <2>4
    <3> QED BY <1>1, <2>4, <3>1, DeletingMatches DEF IInv, MatchesOK, Live
  <2>5. Backed'
    BY <2>1, <2>3, <2>4, BackedKept
  <2> QED BY <2>2, <2>5
<1> QED BY <1>2, <1>3, <1>4, <1>5 DEF IInv

-----------------------------------------------------------------------------
(* Matching.                                                               *)

\* What a pass proposes: nothing but proposals for its pairs, each once.
LEMMA ProposedOnce ==
    ASSUME NEW base \in Seq(Match), NEW s \in Sheets, NEW pairs, IsFiniteSet(pairs),
           \A p \in pairs : p[1] \in Nat /\ p[2] \in Books \cup {NoBook},
           NEW r \in Propose(base, s, pairs)
    PROVE  /\ r \in Seq(Match) /\ \A m \in DOMAIN base : m \in DOMAIN r /\ r[m] = base[m]
           /\ \A m \in DOMAIN r \ DOMAIN base :
                 r[m].sheet = s /\ r[m].status = "proposed" /\ \E p \in pairs : r[m].line = p[1] /\ r[m].book = p[2]
           /\ \A m, k \in DOMAIN r \ DOMAIN base : r[m].line = r[k].line /\ r[m].book = r[k].book => m = k
<1> DEFINE e(p) == [sheet |-> s, line |-> p[1], book |-> p[2], status |-> "proposed", deleted |-> FALSE]
           new == {e(p) : p \in pairs}
           n == Cardinality(new)
<1>1. \A p \in pairs : /\ e(p) \in Match /\ e(p).sheet = s /\ e(p).status = "proposed"
                        /\ e(p).line = p[1] /\ e(p).book = p[2]
  BY DEF Match, MatchStatuses
<1>2. \A p, q \in pairs : e(p).line = e(q).line /\ e(p).book = e(q).book => e(p) = e(q)
  OBVIOUS
<1>3. PICK f \in [1..n -> new] : r = base \o f /\ \A x \in new : \E k \in DOMAIN f : f[k] = x
  BY DEF Propose
<1> HIDE DEF e
<1>4. IsFiniteSet(new)
  <2> DEFINE g == [p \in pairs |-> e(p)]
  <2>1. g \in Surjection(pairs, new)
    BY DEF Surjection
  <2> HIDE DEF g, new
  <2> QED BY <2>1, FS_Surjection
<1>5. \A x \in new : x \in Match /\ x.sheet = s /\ x.status = "proposed" /\ \E p \in pairs : x.line = p[1] /\ x.book = p[2]
  BY <1>1
<1>6. \A x, y \in new : x.line = y.line /\ x.book = y.book => x = y
  BY <1>2
<1> HIDE DEF new
<1>7. n \in Nat
  BY <1>4, FS_CardinalityType
<1> HIDE DEF n
<1>8. \A i, j \in 1..n : f[i] = f[j] => i = j
  <2>1. f \in Surjection(1..n, new)
    BY <1>3 DEF Surjection
  <2>2. IsFiniteSet(1..n) /\ Cardinality(1..n) = n
    BY <1>7, FS_Interval
  <2>3. f \in Injection(1..n, new)
    BY <1>4, <2>1, <2>2, FS_SurjSameCardinalityImpliesInj DEF n
  <2> QED BY <2>3 DEF Injection, IsInjective
<1>9. f \in Seq(Match) /\ Len(f) = n
  <2>1. f \in [1..n -> Match]
    BY <1>3, <1>5
  <2> QED BY <1>7, <2>1
<1>10. /\ r \in Seq(Match) /\ Len(r) = Len(base) + n /\ Len(base) \in Nat
       /\ \A i \in 1..(Len(base) + n) : r[i] = IF i <= Len(base) THEN base[i] ELSE f[i - Len(base)]
  <2>1. base \o f \in Seq(Match) /\ Len(base \o f) = Len(base) + Len(f)
    BY <1>9, ConcatProperties
  <2>2. \A i \in 1..(Len(base) + Len(f)) : (base \o f)[i] = IF i <= Len(base) THEN base[i] ELSE f[i - Len(base)]
    BY <1>9, ConcatProperties
  <2> QED BY <1>3, <1>9, <2>1, <2>2
<1>11. DOMAIN base = 1..Len(base) /\ DOMAIN r = 1..(Len(base) + n)
  BY <1>10
<1>12. \A m \in DOMAIN base : m \in DOMAIN r /\ r[m] = base[m]
  BY <1>7, <1>10, <1>11
<1>13. \A m \in DOMAIN r \ DOMAIN base : m - Len(base) \in 1..n /\ r[m] = f[m - Len(base)] /\ m \in Nat
  BY <1>7, <1>10, <1>11
<1>14. \A m \in DOMAIN r \ DOMAIN base : r[m] \in new
  BY <1>3, <1>13
<1>15. ASSUME NEW m \in DOMAIN r \ DOMAIN base, NEW k \in DOMAIN r \ DOMAIN base, r[m].line = r[k].line, r[m].book = r[k].book
       PROVE  m = k
  <2>1. r[m] = r[k]
    BY <1>6, <1>14, <1>15
  <2>2. m - Len(base) = k - Len(base)
    BY <1>8, <1>13, <2>1
  <2> QED BY <1>10, <1>13, <2>2
<1> QED BY <1>5, <1>10, <1>12, <1>14, <1>15

\* The lines a pass is about are lines of the sheet.
LEMMA OpenLines ==
    ASSUME LinesOK, WorkOK, NEW u \in Users, work[u] # Idle
    PROVE  /\ IsFiniteSet(Open(u))
           /\ \A n \in Open(u) : n \in Nat /\ n \in DOMAIN lines /\ lines[n].sheet = work[u].sheet
<1>1. work[u].seen.lines \in Seq(Line)
  BY InWork DEF View
<1>2. DOMAIN work[u].seen.lines = 1..Len(work[u].seen.lines) /\ Len(work[u].seen.lines) \in Nat
  BY <1>1
<1>3. Open(u) \subseteq 1..Len(work[u].seen.lines)
  BY <1>2 DEF Open, SeenLines, Live
<1>4. IsFiniteSet(Open(u))
  <2>1. IsFiniteSet(1..Len(work[u].seen.lines))
    BY <1>2, FS_Interval
  <2> QED BY <1>3, <2>1, FS_Subset
<1>5. \A n \in Open(u) : n \in DOMAIN lines /\ lines[n].sheet = work[u].sheet
  BY InWork DEF Open
<1> QED BY <1>2, <1>3, <1>4, <1>5

\* A pass: some matches of the sheet are withdrawn, and proposals for open lines are added.
LEMMA PassKeeps ==
    ASSUME IInv, NEW u \in Users, work[u] # Idle, NEW ns, NEW pairs, IsFiniteSet(pairs),
           \A p \in pairs : p[1] \in Open(u) /\ p[2] \in Books \cup {NoBook},
           matches' \in Propose(Deleting(matches, ns), work[u].sheet, pairs),
           Finished(u), UNCHANGED <<sheet, lines, booked, requests>>
    PROVE  /\ SheetsOK' /\ LinesOK' /\ MatchesOK' /\ WorkOK'
           /\ \A m \in DOMAIN matches :
                 /\ m \in DOMAIN matches' /\ (matches'[m].deleted <=> matches[m].deleted \/ m \in ns)
                 /\ matches'[m].line = matches[m].line /\ matches'[m].book = matches[m].book
                 /\ matches'[m].status = matches[m].status
           /\ \A m \in DOMAIN matches' \ DOMAIN matches :
                 matches'[m].status = "proposed" /\ \E p \in pairs : matches'[m].line = p[1] /\ matches'[m].book = p[2]
           /\ \A m, k \in DOMAIN matches' \ DOMAIN matches :
                 matches'[m].line = matches'[k].line /\ matches'[m].book = matches'[k].book => m = k
<1> DEFINE base == Deleting(matches, ns)
<1>1. matches \in Seq(Match) /\ work[u].sheet \in Sheets
  BY InWork DEF IInv, MatchesOK
<1>2. /\ base \in Seq(Match) /\ DOMAIN base = DOMAIN matches
      /\ \A m \in DOMAIN matches :
            /\ base[m].deleted <=> matches[m].deleted \/ m \in ns
            /\ base[m].sheet = matches[m].sheet /\ base[m].line = matches[m].line
            /\ base[m].book = matches[m].book /\ base[m].status = matches[m].status
  BY <1>1, DeletingMatches
<1>3. \A n \in Open(u) : n \in Nat /\ n \in DOMAIN lines /\ lines[n].sheet = work[u].sheet
  BY OpenLines DEF IInv
<1> HIDE DEF base
<1>4. matches' \in Propose(base, work[u].sheet, pairs)
  BY DEF base
<1>5. /\ matches' \in Seq(Match) /\ \A m \in DOMAIN base : m \in DOMAIN matches' /\ matches'[m] = base[m]
      /\ \A m \in DOMAIN matches' \ DOMAIN base :
            /\ matches'[m].sheet = work[u].sheet /\ matches'[m].status = "proposed"
            /\ \E p \in pairs : matches'[m].line = p[1] /\ matches'[m].book = p[2]
      /\ \A m, k \in DOMAIN matches' \ DOMAIN base :
            matches'[m].line = matches'[k].line /\ matches'[m].book = matches'[k].book => m = k
  BY <1>1, <1>2, <1>3, <1>4, ProposedOnce
<1>6. MatchesOK'
  <2>1. ASSUME NEW m \in DOMAIN matches' PROVE matches'[m].line \in DOMAIN lines /\ lines[matches'[m].line].sheet = matches'[m].sheet
    <3>1. CASE m \in DOMAIN matches
      BY <1>2, <1>5, <3>1 DEF IInv, MatchesOK
    <3>2. CASE m \notin DOMAIN matches
      BY <1>2, <1>3, <1>5, <2>1, <3>2
    <3> QED BY <3>1, <3>2
  <2> QED BY <1>5, <2>1 DEF MatchesOK
<1>7. SheetsOK' /\ LinesOK' /\ LinesKept
  BY DEF IInv, SheetsOK, LinesOK, LinesKept
<1>8. WorkOK'
  BY <1>7, WorkKept DEF IInv
<1> QED BY <1>2, <1>5, <1>6, <1>7, <1>8

\* The live matches about the book lines of a pass, and those of them it has not seen as they are.
Rivals(assign) == {m \in Live(matches) : matches[m].book \in Range(assign) \ {NoBook}}
Unseen(u, assign) ==
    {m \in Rivals(assign) : m \notin DOMAIN work[u].seen.matches \/ matches[m] # work[u].seen.matches[m]}
Again(u, assign) ==
    \E m \in Rivals(assign) : \/ matches[m].status = "rejected"
                              \/ matches[m].status = "proposed" /\ matches[m].sheet # work[u].sheet
Missed(u, assign) == \E m \in Unseen(u, assign) : matches[m].status = "confirmed"

\* A confirmed match is not withdrawn, and a book line with a live match is not proposed again.
LEMMA AutoMatchOK == ASSUME IInv, NEW u \in Users, AutoMatch(u) PROVE IInv'
<1> DEFINE s == work[u].sheet
           ns == {m \in MatchesOf(s) : matches[m].status \in {"proposed"}}
           view == work[u].seen
<1>1. work[u] # Idle /\ Finished(u) /\ UNCHANGED <<sheet, lines, booked, requests>>
  BY DEF AutoMatch, Doing
<1>2. PICK assign \in [Open(u) -> Free(u) \cup {NoBook}] :
         /\ \A n, k \in Open(u) : n # k /\ assign[n] # NoBook => assign[n] # assign[k]
         /\ matches' \in Propose(Replaced(matches, s, {"proposed"}), s, {<<n, assign[n]>> : n \in Open(u)})
         /\ lapses' = lapses \cup Lapse(Again(u, assign), "proposed twice") \cup Lapse(Missed(u, assign), "overtaken")
  BY DEF AutoMatch, Rivals, Unseen, Again, Missed
<1> DEFINE pairs == {<<n, assign[n]>> : n \in Open(u)}
<1>3. IsFiniteSet(pairs)
  <2> DEFINE g == [n \in Open(u) |-> <<n, assign[n]>>]
  <2>1. g \in Surjection(Open(u), pairs)
    BY DEF Surjection
  <2>2. IsFiniteSet(Open(u))
    BY <1>1, OpenLines DEF IInv
  <2> HIDE DEF g, pairs
  <2> QED BY <2>1, <2>2, FS_Surjection
<1>4. Free(u) \subseteq Books
  BY <1>1, InWork DEF IInv, Free, View
<1>5. /\ \A p \in pairs : p[1] \in Open(u) /\ p[2] \in Books \cup {NoBook} /\ p[2] = assign[p[1]]
      /\ matches' \in Propose(Deleting(matches, ns), s, pairs)
  <2>1. \A n \in Open(u) : assign[n] \in Books \cup {NoBook}
    BY <1>2, <1>4
  <2>2. ASSUME NEW p \in pairs PROVE p[1] \in Open(u) /\ p[2] \in Books \cup {NoBook} /\ p[2] = assign[p[1]]
    <3>1. PICK n \in Open(u) : p = <<n, assign[n]>>
      OBVIOUS
    <3>2. p[1] = n /\ p[2] = assign[n]
      BY <3>1
    <3> QED BY <2>1, <3>2
  <2>3. matches' \in Propose(Replaced(matches, s, {"proposed"}), s, pairs)
    BY <1>2
  <2> HIDE DEF pairs
  <2> QED BY <2>2, <2>3 DEF Replaced
<1> HIDE DEF pairs, ns
<1>6. /\ SheetsOK' /\ LinesOK' /\ MatchesOK' /\ WorkOK'
      /\ \A m \in DOMAIN matches :
            /\ m \in DOMAIN matches' /\ (matches'[m].deleted <=> matches[m].deleted \/ m \in ns)
            /\ matches'[m].line = matches[m].line /\ matches'[m].book = matches[m].book
            /\ matches'[m].status = matches[m].status
      /\ \A m \in DOMAIN matches' \ DOMAIN matches :
            matches'[m].status = "proposed" /\ \E p \in pairs : matches'[m].line = p[1] /\ matches'[m].book = p[2]
      /\ \A m, k \in DOMAIN matches' \ DOMAIN matches :
            matches'[m].line = matches'[k].line /\ matches'[m].book = matches'[k].book => m = k
  BY <1>1, <1>3, <1>5, PassKeeps, Zenon
<1>7. ASSUME Clean' PROVE Backed' /\ Unique'
  <2>1. "proposed twice" \notin lapses' /\ "overtaken" \notin lapses'
    <3>1. \A x \in lapses' : x = "unguarded"
      BY <1>7 DEF Clean
    <3>2. "proposed twice" # "unguarded" /\ "overtaken" # "unguarded"
      OBVIOUS
    <3> QED BY <3>1, <3>2
  <2>2. ~Again(u, assign) /\ ~Missed(u, assign) /\ Clean
    <3>1. Lapse(Again(u, assign), "proposed twice") = {} /\ Lapse(Missed(u, assign), "overtaken") = {}
      BY <1>2, <2>1 DEF Lapse
    <3>2. Clean
      BY <1>2, <1>7, CleanBefore
    <3> QED BY <3>1, <3>2 DEF Lapse
  <2>3. Backed /\ Unique
    BY <2>2 DEF IInv
  <2>4. \A n \in Live(lines)' : n \in Live(lines) /\ lines'[n].with = lines[n].with
    BY <1>1 DEF Live
  <2>5. ASSUME NEW m \in Live(matches), matches[m].status = "confirmed"
        PROVE  /\ m \in Live(matches)' /\ matches'[m].line = matches[m].line
               /\ matches'[m].book = matches[m].book /\ matches'[m].status = "confirmed"
    <3>1. m \notin ns
      BY <2>5 DEF ns
    <3> QED BY <1>6, <2>5, <3>1 DEF Live
  <2>6. Backed'
    BY <2>3, <2>4, <2>5, BackedKept
  \* An old match and a new one cannot be about the same book line.
  <2>7. ASSUME NEW m \in Live(matches)', m \in DOMAIN matches, NEW k \in DOMAIN matches' \ DOMAIN matches,
               matches'[m].book # NoBook, matches'[m].book = matches'[k].book
        PROVE  FALSE
    <3>1. m \in Live(matches) /\ m \notin ns /\ matches[m].book = matches'[m].book
      BY <1>6, <2>7 DEF Live
    <3>2. PICK n \in Open(u) : matches[m].book = assign[n]
      BY <1>5, <1>6, <2>7, <3>1
    <3>3. matches[m].book \in Range(assign) /\ matches[m].book \in Free(u)
      BY <1>2, <2>7, <3>1, <3>2 DEF Range
    <3>4. m \in Rivals(assign)
      BY <2>7, <3>1, <3>3 DEF Rivals
    <3>5. matches[m].status # "rejected" /\ (matches[m].status = "proposed" => matches[m].sheet = s)
      BY <2>2, <3>4 DEF Again
    <3>6. matches[m].status \in MatchStatuses
      <4>1. matches \in Seq(Match) /\ m \in DOMAIN matches
        BY <2>7 DEF IInv, MatchesOK
      <4>2. matches[m] \in Match
        BY <4>1
      <4> QED BY <4>2 DEF Match
    <3>7. matches[m].status = "confirmed"
      BY <3>1, <3>5, <3>6 DEF ns, MatchesOf, MatchStatuses
    <3>8. m \in DOMAIN view.matches /\ matches[m] = view.matches[m]
      BY <2>2, <3>4, <3>7 DEF Missed, Unseen
    <3>9. m \in Live(view.matches) /\ view.matches[m].status = "confirmed" /\ view.matches[m].book = matches[m].book
      BY <3>1, <3>7, <3>8 DEF Live
    <3> QED BY <3>3, <3>9 DEF Free
  <2>8. ASSUME NEW m \in Live(matches)', NEW k \in Live(matches)', matches'[m].book # NoBook, matches'[m].book = matches'[k].book
        PROVE  m = k
    <3>1. m \in DOMAIN matches' /\ k \in DOMAIN matches'
      BY DEF Live
    <3>2. CASE m \in DOMAIN matches /\ k \in DOMAIN matches
      BY <1>6, <2>3, <2>8, <3>2 DEF Unique, Live
    <3>3. CASE m \notin DOMAIN matches /\ k \notin DOMAIN matches
      <4>1. PICK p \in pairs : matches'[m].line = p[1] /\ matches'[m].book = p[2]
        BY <1>6, <3>1, <3>3
      <4>2. PICK q \in pairs : matches'[k].line = q[1] /\ matches'[k].book = q[2]
        BY <1>6, <3>1, <3>3
      <4>3. p[1] = q[1]
        BY <1>2, <1>5, <2>8, <4>1, <4>2
      <4> QED BY <1>6, <2>8, <3>1, <3>3, <4>1, <4>2, <4>3
    <3> QED BY <2>7, <2>8, <3>1, <3>2, <3>3
  <2> QED BY <2>6, <2>8 DEF Unique
<1> QED BY <1>6, <1>7 DEF IInv

LEMMA AiMatchOK == ASSUME IInv, NEW u \in Users, NEW n \in DOMAIN lines, NEW b \in Books, AiMatch(u, n, b) PROVE IInv'
<1> DEFINE s == work[u].sheet
           ns == {m \in MatchesOf(s) : matches[m].status \in {"proposed", "confirmed", "rejected"}}
           pairs == {<<n, b>>}
<1>1. /\ work[u] # Idle /\ Finished(u) /\ UNCHANGED <<sheet, lines, booked, requests>> /\ n \in Open(u)
      /\ matches' \in Propose(Deleting(matches, ns), s, pairs) /\ lapses' = lapses \cup {"ai pass"}
  BY DEF AiMatch, Doing, Replaced
<1>2. IsFiniteSet(pairs)
  BY FS_Singleton
<1>3. \A p \in pairs : p[1] \in Open(u) /\ p[2] \in Books \cup {NoBook}
  <2>1. <<n, b>>[1] = n /\ <<n, b>>[2] = b
    OBVIOUS
  <2>2. \A p \in pairs : p = <<n, b>>
    OBVIOUS
  <2> QED BY <1>1, <2>1, <2>2
<1> HIDE DEF ns, pairs
<1>4. SheetsOK' /\ LinesOK' /\ MatchesOK' /\ WorkOK'
  BY <1>1, <1>2, <1>3, PassKeeps, Zenon
<1>5. ~Clean'
  <2>1. "ai pass" \in lapses' /\ "ai pass" # "unguarded"
    BY <1>1
  <2> QED BY <2>1 DEF Clean
<1> QED BY <1>4, <1>5 DEF IInv

LEMMA ConfirmOK ==
    ASSUME IInv, NEW m \in DOMAIN matches, NEW status \in {"confirmed", "rejected"}, Confirm(m, status) PROVE IInv'
<1> DEFINE n == matches[m].line
           w == IF status = "confirmed" THEN matches[m].book ELSE NoBook
           x == [lines[n] EXCEPT !.cleared = (status = "confirmed"), !.with = w]
           y == [matches[m] EXCEPT !.status = status]
<1>1. /\ m \in Live(matches) /\ matches' = [matches EXCEPT ![m].status = status]
      /\ lines' = [lines EXCEPT ![n].cleared = (status = "confirmed"), ![n].with = w]
      /\ lapses \subseteq lapses' /\ UNCHANGED <<sheet, booked, work, requests>>
  BY DEF Confirm
<1>2. /\ n \in DOMAIN lines /\ lines[n] \in Line /\ matches[m] \in Match /\ lines \in Seq(Line) /\ matches \in Seq(Match)
      /\ w \in Books \cup {NoBook} /\ (status = "confirmed") \in BOOLEAN
  <2>1. lines \in Seq(Line) /\ matches \in Seq(Match) /\ n \in DOMAIN lines
    BY DEF IInv, LinesOK, MatchesOK
  <2>2. lines[n] \in Line /\ matches[m] \in Match
    BY <2>1
  <2>3. matches[m].book \in Books \cup {NoBook}
    BY <2>2 DEF Match
  <2> QED BY <2>1, <2>2, <2>3
<1>3. x \in Line /\ x.with = w /\ x.sheet = lines[n].sheet /\ x.deleted = lines[n].deleted
  <2>1. PICK b \in BOOLEAN : b = (status = "confirmed")
    BY <1>2
  <2>2. x = [lines[n] EXCEPT !.cleared = b, !.with = w]
    BY <2>1
  <2> HIDE DEF w, x
  <2> QED BY <1>2, <2>2 DEF Line
<1>4. /\ y \in Match /\ y.status = status /\ y.line = n /\ y.sheet = matches[m].sheet
      /\ y.book = matches[m].book /\ y.deleted = matches[m].deleted
  BY <1>2 DEF Match, MatchStatuses
<1>5. lines' = [lines EXCEPT ![n] = x] /\ matches' = [matches EXCEPT ![m] = y]
  BY <1>1, <1>2
<1> HIDE DEF x, y
<1>6. /\ lines' \in Seq(Line) /\ DOMAIN lines' = DOMAIN lines /\ lines'[n] = x
      /\ \A k \in DOMAIN lines : k # n => lines'[k] = lines[k]
      /\ matches' \in Seq(Match) /\ DOMAIN matches' = DOMAIN matches /\ matches'[m] = y
      /\ \A k \in DOMAIN matches : k # m => matches'[k] = matches[k]
  BY <1>2, <1>3, <1>4, <1>5
<1>7. LinesKept /\ LinesOK' /\ SheetsOK'
  BY <1>1, <1>3, <1>6 DEF LinesKept, LinesOK, IInv, SheetsOK
<1>8. WorkOK' /\ MatchesOK'
  <2>1. \A k \in DOMAIN matches' : matches'[k].line = matches[k].line /\ matches'[k].sheet = matches[k].sheet
    BY <1>4, <1>6
  <2> QED BY <1>1, <1>6, <1>7, <2>1, WorkKept, MatchesKept DEF IInv
<1>9. ASSUME Clean' PROVE Backed' /\ Unique'
  <2>1. Backed /\ Unique
    BY <1>1, <1>9, CleanBefore DEF IInv
  <2>2. /\ \A k \in DOMAIN matches : (k \in Live(matches)' <=> k \in Live(matches)) /\ matches'[k].book = matches[k].book
        /\ \A k \in DOMAIN lines : k \in Live(lines)' <=> k \in Live(lines)
    BY <1>3, <1>4, <1>6 DEF Live
  <2>3. Unique'
    BY <1>6, <2>1, <2>2 DEF Unique, Live
  <2>4. ASSUME NEW k \in Live(lines)', lines'[k].with # NoBook
        PROVE  \E i \in Live(matches)' : matches'[i].line = k /\ matches'[i].status = "confirmed" /\ matches'[i].book = lines'[k].with
    <3>1. k \in DOMAIN lines /\ k \in Live(lines)
      BY <1>6, <2>2 DEF Live
    <3>2. CASE k = n
      <4>1. status = "confirmed" /\ lines'[k].with = matches[m].book
        BY <1>3, <1>6, <2>4, <3>2
      <4>2. matches'[m].line = k /\ matches'[m].status = "confirmed" /\ matches'[m].book = lines'[k].with
        BY <1>4, <1>6, <3>2, <4>1
      <4> QED BY <1>1, <2>2, <4>2
    <3>3. CASE k # n
      <4>1. PICK i \in Live(matches) : matches[i].line = k /\ matches[i].status = "confirmed" /\ matches[i].book = lines[k].with
        BY <1>6, <2>1, <2>4, <3>1, <3>3 DEF Backed
      <4>2. i # m /\ i \in DOMAIN matches
        BY <3>3, <4>1 DEF Live
      <4> QED BY <1>6, <2>2, <3>1, <3>3, <4>1, <4>2
    <3> QED BY <3>2, <3>3
  <2> QED BY <2>3, <2>4 DEF Backed
<1> QED BY <1>7, <1>8, <1>9 DEF IInv

-----------------------------------------------------------------------------
(* The invariant, and that no book line is reconciled twice.               *)

LEMMA InitOK == ASSUME Init PROVE IInv
<1>1. SheetsOK
  BY ReconciliationAssumption DEF Init, SheetsOK, SheetStatuses
<1>2. lines \in Seq(Line) /\ DOMAIN lines = {} /\ matches \in Seq(Match) /\ DOMAIN matches = {}
  BY DEF Init
<1>3. WorkOK
  BY DEF Init, WorkOK
<1> QED BY <1>1, <1>2, <1>3 DEF IInv, LinesOK, MatchesOK, Backed, Unique, Live

LEMMA StepOK == ASSUME IInv, [Next]_vars PROVE IInv'
<1>1. CASE \E s \in Sheets : Start(s) \/ Discard(s) \/ SignOff(s) \/ Reopen(s)
  BY <1>1, StartOK, DiscardOK, SignOffOK
<1>2. CASE \E b \in Books : Book(b)
  BY <1>2, BookOK
<1>3. CASE \E m \in DOMAIN matches, status \in {"confirmed", "rejected"} : Confirm(m, status)
  BY <1>3, ConfirmOK
<1>4. CASE \E n \in DOMAIN lines : PostToLedger(n)
  BY <1>4, PostToLedgerOK
<1>5. CASE \E u \in Users, op \in Requests, s \in Sheets : Begin(u, op, s)
  BY <1>5, BeginOK
<1>6. CASE \E u \in Users : Refresh(u) \/ Populate(u) \/ AutoMatch(u) \/ \E row \in Rows : Import(u, row)
  BY <1>6, RefreshOK, PopulateOK, AutoMatchOK, ImportOK
<1>7. CASE \E u \in Users : \E n \in DOMAIN lines :
             DeleteLine(u, n) \/ (\E flag \in BOOLEAN : Tick(u, n, flag)) \/ (\E b \in Books : AiMatch(u, n, b))
  BY <1>7, DeleteLineOK, TickOK, AiMatchOK
<1>8. CASE UNCHANGED vars
  <2>1. LinesKept /\ SheetsOK' /\ LinesOK'
    BY <1>8 DEF vars, IInv, SheetsOK, LinesOK, LinesKept
  <2> QED BY <1>8, <2>1, PaperOK DEF vars
<1> QED BY <1>1, <1>2, <1>3, <1>4, <1>5, <1>6, <1>7, <1>8 DEF Next, Requests

\* What a request has read stays true of where the lines are, and, as long as no proposal was
\* repeated and nothing was overtaken, every confirmation is backed by a match of its own.
THEOREM ReconciliationInvariance == Spec => []IInv
<1>1. Init => IInv
  BY InitOK
<1>2. IInv /\ [Next]_vars => IInv'
  BY StepOK
<1> QED BY <1>1, <1>2, PTL DEF Spec

\* Sheets, lines and matches keep their types, and a match is about a line there is.
THEOREM ReconciliationTypes == Spec => []TypeOK
<1>1. IInv => TypeOK
  <2> SUFFICES ASSUME IInv PROVE TypeOK
    OBVIOUS
  <2>1. \A n \in DOMAIN lines : lines[n] \in Line
    BY DEF IInv, LinesOK
  <2>2. \A m \in DOMAIN matches : matches[m] \in Match /\ matches[m].line \in DOMAIN lines
    BY DEF IInv, MatchesOK
  <2>3. SheetsOK /\ DOMAIN work = Users
    BY DEF IInv, WorkOK
  <2> QED BY <2>1, <2>2, <2>3 DEF TypeOK, SheetsOK, SheetStatuses, Line, Match, MatchStatuses
<1> QED BY <1>1, ReconciliationInvariance, PTL

\* A journal line is not confirmed for two lines of any sheet, however many requests there are
\* and whatever they have read, unless a pass proposed one that another proposal, a rejection
\* or a confirmation it had not seen was about (deterministic_match, confirm_match).
THEOREM ReconciledOnce == Spec => []BookReconciledOnce
<1>1. IInv => BookReconciledOnce
  <2> SUFFICES ASSUME Backed, Unique, NEW n \in Live(lines), NEW k \in Live(lines),
                      lines[n].with # NoBook, lines[n].with = lines[k].with
               PROVE  n = k
    BY DEF IInv, BookReconciledOnce, Clean
  <2>1. PICK m \in Live(matches) : matches[m].line = n /\ matches[m].status = "confirmed" /\ matches[m].book = lines[n].with
    BY DEF Backed
  <2>2. PICK i \in Live(matches) : matches[i].line = k /\ matches[i].status = "confirmed" /\ matches[i].book = lines[k].with
    BY DEF Backed
  <2>3. m = i
    BY <2>1, <2>2 DEF Unique
  <2> QED BY <2>1, <2>2, <2>3
<1> QED BY <1>1, ReconciliationInvariance, PTL

-----------------------------------------------------------------------------
(* What is signed off.                                                     *)

\* No request has written on a signed-off sheet: neither one that never looks at the status,
\* nor one that looked before the sheet was signed off.
Respected == lapses' \cap {"unguarded", "overtaken"} = {}

LEMMA NotLapsed ==
    ASSUME Respected, NEW cond, NEW name \in {"unguarded", "overtaken"}, Lapse(cond, name) \subseteq lapses' PROVE ~cond
BY DEF Respected, Lapse

LEMMA NotSignedOff ==
    ASSUME IInv, Respected, NEW u \in Users, work[u] # Idle, Late(u) \subseteq lapses', work[u].op \in Guarded \cup {"import"}
    PROVE  sheet[work[u].sheet].status # "done"
<1> DEFINE done == sheet[work[u].sheet].status = "done"
<1>1. /\ Lapse(done /\ work[u].op = "import", "unguarded") \subseteq lapses'
      /\ Lapse(done /\ work[u].op # "import" /\ work[u].status = "open", "overtaken") \subseteq lapses'
  BY DEF Late
<1>2. work[u].op \in Guarded => work[u].status = "open"
  BY InWork DEF IInv, Grounded
<1> HIDE DEF done
<1>3. ~(done /\ work[u].op = "import") /\ ~(done /\ work[u].op # "import" /\ work[u].status = "open")
  BY <1>1, NotLapsed
<1>4. ~done
  BY <1>2, <1>3
<1> QED BY <1>4 DEF done

SameSheet(s) == sheet'[s].figure = sheet[s].figure
SameLines(s) == LinesOf(s)' = LinesOf(s) /\ \A n \in LinesOf(s) : lines'[n].cleared = lines[n].cleared

\* The lines of a sheet are the same if none of them was edited and none was added to it.
LEMMA Untouched ==
    ASSUME LinesOK, LinesKept, NEW s,
           \A n \in DOMAIN lines : lines[n].sheet = s =>
               (lines'[n].deleted <=> lines[n].deleted) /\ lines'[n].cleared = lines[n].cleared,
           \A n \in DOMAIN lines' \ DOMAIN lines : lines'[n].sheet # s
    PROVE  SameLines(s)
<1>1. \A n \in LinesOf(s) : n \in LinesOf(s)' /\ lines'[n].cleared = lines[n].cleared
  BY DEF LinesKept, LinesOf, Live
<1>2. \A n \in LinesOf(s)' : n \in LinesOf(s)
  BY DEF LinesKept, LinesOf, Live
<1> QED BY <1>1, <1>2 DEF SameLines

LEMMA UnchangedLines == ASSUME LinesOK, UNCHANGED lines, NEW s PROVE SameLines(s)
BY DEF SameLines, LinesOf, Live

\* One line of another sheet was edited.
LEMMA OtherLine ==
    ASSUME LinesOK, NEW s, NEW n \in DOMAIN lines, lines[n].sheet # s, DOMAIN lines' = DOMAIN lines,
           \A k \in DOMAIN lines : k # n => lines'[k] = lines[k], lines'[n].sheet = lines[n].sheet
    PROVE  SameLines(s)
<1>1. \A k \in LinesOf(s) : k \in LinesOf(s)' /\ lines'[k].cleared = lines[k].cleared
  BY DEF LinesOf, Live
<1>2. \A k \in LinesOf(s)' : k \in LinesOf(s)
  BY DEF LinesOf, Live
<1> QED BY <1>1, <1>2 DEF SameLines

\* Start and DeleteLine: lines of another sheet were deleted.
LEMMA OtherDeleted ==
    ASSUME LinesOK, NEW s, NEW ns, \A n \in ns : lines[n].sheet # s, lines' = Deleting(lines, ns)
    PROVE  SameLines(s)
<1>1. /\ DOMAIN lines' = DOMAIN lines
      /\ \A n \in DOMAIN lines :
            /\ lines'[n].deleted <=> lines[n].deleted \/ n \in ns
            /\ lines'[n].sheet = lines[n].sheet /\ lines'[n].cleared = lines[n].cleared
  BY DeletingLines DEF LinesOK
<1>2. \A k \in LinesOf(s) : k \in LinesOf(s)' /\ lines'[k].cleared = lines[k].cleared
  BY <1>1 DEF LinesOf, Live
<1>3. \A k \in LinesOf(s)' : k \in LinesOf(s)
  BY <1>1 DEF LinesOf, Live
<1> QED BY <1>2, <1>3 DEF SameLines

\* Actions on sheets: no line of a sheet that is signed off before and after.
LEMMA SheetStepHolds ==
    ASSUME IInv, NEW s \in Sheets, sheet[s].status = "done", sheet'[s].status = "done",
           NEW z \in Sheets, Start(z) \/ Discard(z) \/ SignOff(z) \/ Reopen(z)
    PROVE  SameSheet(s) /\ SameLines(s)
<1>1. CASE Start(z)
  <2>1. sheet' = [sheet EXCEPT ![z] = [status |-> "open", figure |-> Balance]] /\ lines' = Deleting(lines, LinesOf(z))
    BY <1>1 DEF Start
  <2>2. s # z /\ sheet'[s] = sheet[s]
    BY <2>1 DEF IInv, SheetsOK
  <2>3. \A n \in LinesOf(z) : lines[n].sheet # s
    BY <2>2 DEF LinesOf
  <2> QED BY <2>1, <2>2, <2>3, OtherDeleted DEF IInv, SameSheet
<1>2. CASE Discard(z) \/ SignOff(z) \/ Reopen(z)
  <2>1. UNCHANGED lines
    BY <1>2 DEF Discard, SignOff, Reopen
  <2>2. sheet'[s] = sheet[s]
    BY <1>2 DEF Discard, SignOff, Reopen, IInv, SheetsOK
  <2> QED BY <2>1, <2>2, UnchangedLines DEF IInv, SameSheet
<1> QED BY <1>1, <1>2

\* Requests that write lines: they write on the sheet they have read, which is not signed off.
LEMMA RequestHolds ==
    ASSUME IInv, Respected, NEW s \in Sheets, sheet[s].status = "done", NEW u \in Users,
           \/ Refresh(u) \/ Populate(u) \/ \E row \in Rows : Import(u, row)
           \/ \E n \in DOMAIN lines : DeleteLine(u, n) \/ \E flag \in BOOLEAN : Tick(u, n, flag)
    PROVE  SameSheet(s) /\ SameLines(s)
<1>1. work[u] # Idle /\ Late(u) \subseteq lapses' /\ work[u].op \in Guarded \cup {"import"}
  BY DEF Refresh, Populate, Import, DeleteLine, Tick, Doing, Guarded
<1>2. s # work[u].sheet /\ work[u].sheet \in Sheets
  BY <1>1, NotSignedOff, InWork DEF IInv
<1>3. \A n \in SeenLines(u) : n \in DOMAIN lines /\ lines[n].sheet = work[u].sheet
  BY <1>1, InWork DEF IInv
<1>4. CASE Refresh(u)
  <2>1. sheet' = [sheet EXCEPT ![work[u].sheet].figure = work[u].figure] /\ UNCHANGED lines
    BY <1>4 DEF Refresh
  <2> QED BY <1>2, <2>1, UnchangedLines DEF IInv, SheetsOK, SameSheet
<1>5. CASE ~Refresh(u)
  <2>1. SameSheet(s)
    BY <1>5 DEF Populate, Import, DeleteLine, Tick, SameSheet
  <2>2. CASE Populate(u)
    <3>1. lines' \in Seq(Line) /\ \A n \in DOMAIN lines' \ DOMAIN lines : lines'[n].sheet # s
      BY <1>2, <2>2, PopulateOK DEF IInv, LinesOK
    <3>2. PICK f : lines' = lines \o f /\ f \in Seq(Line)
      <4>1. PICK order \in [1..Cardinality(Missing(u)) -> Missing(u)] :
               lines' = lines \o [k \in DOMAIN order |-> Added(work[u].sheet, order[k])]
        BY <2>2 DEF Populate
      <4>2. Missing(u) \subseteq Books
        BY <1>1, InWork DEF IInv, Missing, View
      <4>3. Cardinality(Missing(u)) \in Nat
        BY <4>2, ReconciliationAssumption, FS_Subset, FS_CardinalityType
      <4>4. \A k \in 1..Cardinality(Missing(u)) : Added(work[u].sheet, order[k]) \in Line
        BY <1>2, <4>2, AddedIsLine
      <4>5. [k \in 1..Cardinality(Missing(u)) |-> Added(work[u].sheet, order[k])] \in Seq(Line)
        BY <4>3, <4>4
      <4> QED BY <4>1, <4>5
    <3>3. \A i \in DOMAIN lines : i \in DOMAIN lines' /\ lines'[i] = lines[i]
      BY <3>2, Lengthened DEF IInv, LinesOK
    <3>4. LinesKept
      BY <3>1, <3>3 DEF LinesKept
    <3> QED BY <2>1, <3>1, <3>3, <3>4, Untouched DEF IInv
  <2>3. CASE \E row \in Rows : Import(u, row)
    <3>1. PICK row \in Rows : lines' = Append(lines, Added(work[u].sheet, row))
      BY <2>3 DEF Import
    <3>2. Added(work[u].sheet, row) \in Line /\ Added(work[u].sheet, row).sheet = work[u].sheet
      BY <1>2, AddedIsLine
    <3>3. /\ lines' \in Seq(Line) /\ \A i \in DOMAIN lines : i \in DOMAIN lines' /\ lines'[i] = lines[i]
          /\ \A i \in DOMAIN lines' \ DOMAIN lines : lines'[i].sheet = work[u].sheet
      BY <3>1, <3>2 DEF IInv, LinesOK
    <3>4. LinesKept
      BY <3>3 DEF LinesKept
    <3> QED BY <1>2, <2>1, <3>3, <3>4, Untouched DEF IInv
  <2>4. CASE \E n \in DOMAIN lines : DeleteLine(u, n)
    <3>1. PICK n \in SeenLines(u) : lines' = Deleting(lines, {n})
      BY <2>4 DEF DeleteLine
    <3> QED BY <1>2, <1>3, <2>1, <3>1, OtherDeleted DEF IInv
  <2>5. CASE \E n \in DOMAIN lines, flag \in BOOLEAN : Tick(u, n, flag)
    <3>1. PICK n \in SeenLines(u), flag \in BOOLEAN : lines' = [lines EXCEPT ![n].cleared = flag]
      BY <2>5 DEF Tick
    <3> DEFINE x == [lines[n] EXCEPT !.cleared = flag]
    <3>2. lines[n] \in Line /\ n \in DOMAIN lines
      BY <1>3 DEF IInv, LinesOK
    <3>3. x.sheet = lines[n].sheet
      BY <3>2 DEF Line
    <3>4. lines' = [lines EXCEPT ![n] = x]
      BY <3>1
    <3> HIDE DEF x
    <3>5. DOMAIN lines' = DOMAIN lines /\ lines'[n] = x /\ \A k \in DOMAIN lines : k # n => lines'[k] = lines[k]
      BY <3>2, <3>4
    <3> QED BY <1>2, <1>3, <2>1, <3>2, <3>3, <3>5, OtherLine DEF IInv
  <2> QED BY <1>5, <2>2, <2>3, <2>4, <2>5
<1> QED BY <1>4, <1>5

\* Confirming and posting look at no status: on a signed-off sheet they are lapses.
LEMMA ConfirmHolds ==
    ASSUME IInv, Respected, NEW s \in Sheets, sheet[s].status = "done",
           \/ \E m \in DOMAIN matches, status \in {"confirmed", "rejected"} : Confirm(m, status)
           \/ \E n \in DOMAIN lines : PostToLedger(n)
    PROVE  SameSheet(s) /\ SameLines(s)
<1>1. SameSheet(s)
  BY DEF Confirm, PostToLedger, SameSheet
<1>2. ASSUME NEW m \in DOMAIN matches, NEW status \in {"confirmed", "rejected"}, Confirm(m, status) PROVE SameLines(s)
  <2> DEFINE n == matches[m].line
             w == IF status = "confirmed" THEN matches[m].book ELSE NoBook
             x == [lines[n] EXCEPT !.cleared = (status = "confirmed"), !.with = w]
  <2>1. /\ lines' = [lines EXCEPT ![n].cleared = (status = "confirmed"), ![n].with = w]
        /\ Lapse(sheet[matches[m].sheet].status = "done", "unguarded") \subseteq lapses'
    BY <1>2 DEF Confirm
  <2>2. sheet[matches[m].sheet].status # "done"
    BY <2>1, NotLapsed
  <2>3. n \in DOMAIN lines /\ lines[n].sheet = matches[m].sheet /\ lines \in Seq(Line)
    BY DEF IInv, LinesOK, MatchesOK
  <2>4. lines[n] \in Line
    BY <2>3
  <2>5. x.sheet = lines[n].sheet
    BY <2>4 DEF Line
  <2>6. lines' = [lines EXCEPT ![n] = x]
    BY <2>1, <2>3
  <2> HIDE DEF x, n
  <2>7. DOMAIN lines' = DOMAIN lines /\ lines'[n] = x /\ \A k \in DOMAIN lines : k # n => lines'[k] = lines[k]
    BY <2>3, <2>6
  <2> QED BY <2>2, <2>3, <2>5, <2>7, OtherLine DEF IInv
<1>3. ASSUME NEW n \in DOMAIN lines, PostToLedger(n) PROVE SameLines(s)
  <2> DEFINE x == [lines[n] EXCEPT !.cleared = TRUE, !.posted = TRUE]
  <2>1. /\ lines' = [lines EXCEPT ![n].cleared = TRUE, ![n].posted = TRUE]
        /\ Lapse(sheet[lines[n].sheet].status = "done", "unguarded") \subseteq lapses'
    BY <1>3 DEF PostToLedger
  <2>2. lines[n].sheet # s
    BY <2>1, NotLapsed
  <2>3. lines[n] \in Line /\ lines \in Seq(Line)
    BY DEF IInv, LinesOK
  <2>4. x.sheet = lines[n].sheet
    BY <2>3 DEF Line
  <2>5. lines' = [lines EXCEPT ![n] = x]
    BY <2>1, <2>3
  <2> HIDE DEF x
  <2>6. DOMAIN lines' = DOMAIN lines /\ lines'[n] = x /\ \A k \in DOMAIN lines : k # n => lines'[k] = lines[k]
    BY <2>3, <2>5
  <2> QED BY <2>2, <2>4, <2>6, OtherLine DEF IInv
<1> QED BY <1>1, <1>2, <1>3

LEMMA SignedOffStep ==
    ASSUME IInv, [Next]_vars, Respected, NEW s \in Sheets, sheet[s].status = "done", sheet'[s].status = "done"
    PROVE  SameSheet(s) /\ SameLines(s)
<1>1. CASE \E z \in Sheets : Start(z) \/ Discard(z) \/ SignOff(z) \/ Reopen(z)
  BY <1>1, SheetStepHolds
<1>2. CASE \E u \in Users : \/ Refresh(u) \/ Populate(u) \/ \E row \in Rows : Import(u, row)
                            \/ \E n \in DOMAIN lines : DeleteLine(u, n) \/ \E flag \in BOOLEAN : Tick(u, n, flag)
  BY <1>2, RequestHolds
<1>3. CASE \/ \E m \in DOMAIN matches, status \in {"confirmed", "rejected"} : Confirm(m, status)
           \/ \E n \in DOMAIN lines : PostToLedger(n)
  BY <1>3, ConfirmHolds
<1>4. CASE \/ \E b \in Books : Book(b)
           \/ \E u \in Users, op \in Requests, z \in Sheets : Begin(u, op, z)
           \/ \E u \in Users : AutoMatch(u) \/ \E n \in DOMAIN lines, b \in Books : AiMatch(u, n, b)
           \/ UNCHANGED vars
  <2>1. UNCHANGED <<sheet, lines>>
    BY <1>4 DEF Book, Begin, AutoMatch, AiMatch, vars
  <2> QED BY <2>1, UnchangedLines DEF IInv, SameSheet
<1> QED BY <1>1, <1>2, <1>3, <1>4 DEF Next, Requests

\* A sheet that is signed off keeps the balance it was agreed at and its lines, ticks and all,
\* in every step of every request, but for the requests that never look at its status
\* (import_statement, confirm_match, post_confirmed_gl) or looked before it was signed off.
THEOREM SignedOff == Spec => SignedOffStays
<1>1. ASSUME IInv, [Next]_vars
      PROVE  lapses' \cap {"unguarded", "overtaken"} = {} =>
                \A s \in Sheets : sheet[s].status = "done" /\ sheet'[s].status = "done" =>
                    /\ sheet'[s].figure = sheet[s].figure
                    /\ LinesOf(s)' = LinesOf(s) /\ \A n \in LinesOf(s) : lines'[n].cleared = lines[n].cleared
  BY <1>1, SignedOffStep DEF Respected, SameSheet, SameLines
<1> QED BY <1>1, ReconciliationInvariance, PTL DEF Spec, SignedOffStays

-----------------------------------------------------------------------------
(* What is paid to the platform.                                           *)

PayStatuses == {"none", "pending", "failed", "succeeded", "refunded", "partially refunded"}
Settling == [reference : References, step : {"verify", "grant", "fail"}]

BillTypes ==
    /\ kind \in [References -> {"plan", "integration"}] /\ pay \in [References -> PayStatuses]
    /\ provider \in [References -> {"none", "closed", "open", "failed", "success", "reversed"}]
    /\ owns \subseteq {"plan", "integration"} /\ charged \subseteq References /\ grants \in [References -> Nat]
    /\ payWorker \in [Users -> {S!None} \cup Settling]

\* The customer was charged for what has gone through at the provider, only that was granted or
\* refunded, and a settlement on its way to grant has seen it.
PaymentOK(r) ==
    /\ r \in charged <=> provider[r] \in {"success", "reversed"}
    /\ pay[r] = "none" => provider[r] = "none"
    /\ grants[r] > 0 => r \in charged
    /\ pay[r] = "succeeded" => grants[r] > 0
    /\ pay[r] \in {"refunded", "partially refunded"} => r \in charged
    /\ S!Clear(r, {"failed blindly", "granted after refund"}) =>
          grants[r] <= 1 /\ (grants[r] = 1 => pay[r] \in {"succeeded", "refunded", "partially refunded"})
SettlingOK(w) ==
    /\ pay[w.reference] # "none" /\ (w.step = "grant" => w.reference \in charged)

\* While nobody pays late and nothing is refunded: what was charged for an integration is waiting
\* or granted, at most one payment for it is, and a granted one is owned.  A settlement marks as
\* failed only what failed at the provider.
Alive == {r \in S!Guarded : pay[r] \in {"pending", "succeeded"}}
Straight(r) ==
    /\ pay[r] # "partially refunded" /\ provider[r] # "reversed"
    /\ pay[r] = "failed" => provider[r] \in {"closed", "failed"}
InOrder == S!Undisturbed({"paid after failure", "failed blindly", "refunded"})
OneAlive ==
    /\ charged \cap S!Guarded \subseteq Alive
    /\ \A r, q \in Alive : r = q
    /\ \A r \in Alive : pay[r] = "succeeded" => "integration" \in owns
    /\ \A r \in S!Guarded : Straight(r)
    /\ \A u \in Users : S!At(u, "fail") /\ payWorker[u].reference \in S!Guarded =>
          provider[payWorker[u].reference] = "failed"
Owed == S!Undisturbed({"failed blindly"}) => ("integration" \in owns => \E r \in S!Guarded : S!Paid(r))

BillInv ==
    /\ BillTypes /\ \A r \in References : PaymentOK(r)
    /\ \A u \in Users : payWorker[u] # S!None => SettlingOK(payWorker[u])
    /\ (InOrder => OneAlive) /\ Owed

LEMMA SettlingShape ==
    ASSUME BillTypes, NEW u \in Users, payWorker[u] # S!None
    PROVE  payWorker[u] \in Settling /\ payWorker[u].reference \in References
BY DEF BillTypes, Settling

\* A record of a settlement is not the absence of one.
LEMMA SettlingIsSome == \A w \in Settling : w # S!None
BY DEF Settling, S!None

LEMMA BillInitOK == ASSUME S!Init PROVE BillInv
<1>1. BillTypes
  BY DEF S!Init, BillTypes, PayStatuses
<1>2. \A r \in References : PaymentOK(r)
  BY DEF S!Init, PaymentOK
<1>3. OneAlive /\ Owed /\ \A u \in Users : payWorker[u] = S!None
  BY DEF S!Init, OneAlive, Straight, Owed, Alive, S!Guarded, S!At
<1> QED BY <1>1, <1>2, <1>3 DEF BillInv

\* What has happened stays in the history.
LEMMA StillClear ==
    ASSUME payNotes \subseteq payNotes', kind' = kind
    PROVE  /\ S!Guarded' = S!Guarded
           /\ \A r \in References : \A names : S!Clear(r, names)' => S!Clear(r, names)
           /\ \A names : S!Undisturbed(names)' => S!Undisturbed(names)
BY DEF S!Clear, S!Undisturbed, S!Guarded

\* A reference of which nothing changed.
LEMMA PaymentStays ==
    ASSUME NEW r \in References, PaymentOK(r), payNotes \subseteq payNotes', kind' = kind,
           pay'[r] = pay[r], provider'[r] = provider[r], grants'[r] = grants[r], r \in charged' <=> r \in charged
    PROVE  PaymentOK(r)'
<1>1. S!Clear(r, {"failed blindly", "granted after refund"})' => S!Clear(r, {"failed blindly", "granted after refund"})
  BY StillClear
<1> QED BY <1>1 DEF PaymentOK

\* Settlements go on when no payment is taken back.
LEMMA SettlingStays ==
    ASSUME BillInv, NEW u \in Users, payWorker'[u] = payWorker[u], payWorker[u] # S!None,
           charged \subseteq charged', \A r \in References : pay[r] # "none" => pay'[r] # "none"
    PROVE  SettlingOK(payWorker[u])'
<1>1. payWorker[u].reference \in References /\ SettlingOK(payWorker[u])
  BY SettlingShape DEF BillInv
<1> QED BY <1>1 DEF SettlingOK

LEMMA InitiateOK == ASSUME BillInv, NEW r \in References, S!Initiate(r) PROVE BillInv'
<1>1. /\ pay[r] = "none" /\ pay' = [pay EXCEPT ![r] = "pending"]
      /\ UNCHANGED <<kind, provider, owns, payWorker, charged, grants, payNotes>>
  BY DEF S!Initiate
<1>2. pay'[r] = "pending" /\ \A q \in References \ {r} : pay'[q] = pay[q]
  BY <1>1 DEF BillInv, BillTypes
<1>3. BillTypes'
  BY <1>1 DEF BillInv, BillTypes, PayStatuses
<1>4. ASSUME NEW q \in References PROVE PaymentOK(q)'
  <2>1. CASE q = r
    <3>1. provider[r] = "none" /\ r \notin charged /\ ~(grants[r] > 0) /\ grants[r] \in Nat
      BY <1>1 DEF BillInv, PaymentOK, BillTypes
    <3>2. provider'[r] = "none" /\ r \notin charged' /\ grants'[r] = 0 /\ pay'[r] = "pending"
      BY <1>1, <1>2, <3>1
    <3> QED BY <2>1, <3>2 DEF PaymentOK
  <2>2. CASE q # r
    BY <1>1, <1>2, <2>2, PaymentStays DEF BillInv
  <2> QED BY <2>1, <2>2
<1>5. ASSUME NEW u \in Users, payWorker'[u] # S!None PROVE SettlingOK(payWorker[u])'
  <2>1. \A q \in References : pay[q] # "none" => pay'[q] # "none"
    BY <1>1, <1>2
  <2> QED BY <1>1, <1>5, <2>1, SettlingStays
<1>6. InOrder' => OneAlive'
  <2> SUFFICES ASSUME InOrder' PROVE OneAlive'
    OBVIOUS
  <2>1. OneAlive /\ S!Guarded' = S!Guarded /\ r \notin charged
    BY <1>1, StillClear DEF BillInv, InOrder, PaymentOK
  <2>2. r \in S!Guarded => Alive = {}
    <3> SUFFICES ASSUME r \in S!Guarded, NEW q \in Alive PROVE FALSE
      OBVIOUS
    <3>1. kind[r] = "integration" /\ "integration" \notin owns /\ pay[q] # "pending"
      BY DEF S!Guarded, S!Initiate, S!Waiting, Alive
    <3> QED BY <2>1, <3>1 DEF OneAlive, Alive
  <2>3. Alive' = IF r \in S!Guarded THEN Alive \cup {r} ELSE Alive
    <3>1. S!Guarded \subseteq References
      BY DEF S!Guarded
    <3> QED BY <1>1, <1>2, <2>1, <3>1 DEF Alive
  <2>4. charged' \cap S!Guarded' \subseteq Alive' /\ \A p, q \in Alive' : p = q
    BY <1>1, <2>1, <2>2, <2>3 DEF OneAlive
  <2>7. ASSUME NEW q \in Alive', pay'[q] = "succeeded" PROVE "integration" \in owns'
    <3>1. q \in Alive /\ pay[q] = "succeeded"
      BY <1>1, <1>2, <2>3, <2>7 DEF Alive, S!Guarded
    <3> QED BY <1>1, <2>1, <3>1 DEF OneAlive
  <2>5. \A q \in S!Guarded' : Straight(q)'
    BY <1>1, <1>2, <2>1 DEF OneAlive, Straight, S!Guarded
  <2>6. \A u \in Users : S!At(u, "fail")' => S!At(u, "fail") /\ payWorker'[u] = payWorker[u]
    BY <1>1 DEF S!At
  <2> QED BY <1>1, <2>1, <2>4, <2>5, <2>6, <2>7 DEF OneAlive
<1>7. Owed'
  <2>1. \A q \in S!Guarded : S!Paid(q) => S!Paid(q)'
    BY <1>1, <1>2 DEF S!Paid, S!Guarded
  <2> QED BY <1>1, <2>1, StillClear DEF BillInv, Owed
<1> QED BY <1>3, <1>4, <1>5, <1>6, <1>7 DEF BillInv
\* A step that leaves the payments alive in order: what is charged for stays alive.
LEMMA OneAliveStays ==
    ASSUME BillInv, InOrder', payNotes \subseteq payNotes', kind' = kind, S!Guarded' = S!Guarded,
           Alive' \subseteq Alive, charged' \cap S!Guarded \subseteq Alive',
           \A r \in Alive' : pay'[r] = "succeeded" => "integration" \in owns',
           \A r \in S!Guarded : Straight(r)',
           \A u \in Users : S!At(u, "fail")' /\ payWorker'[u].reference \in S!Guarded =>
               provider'[payWorker'[u].reference] = "failed"
    PROVE  OneAlive'
<1>1. OneAlive
  BY StillClear DEF BillInv, InOrder
<1> QED BY <1>1 DEF OneAlive

\* Who settles with fail in mind found the payment failed; while nothing is done to the provider's
\* side of a failed payment, that stays so.
LEMMA FailingStays ==
    ASSUME BillInv, InOrder', payNotes \subseteq payNotes', kind' = kind,
           NEW u \in Users, payWorker'[u] = payWorker[u], S!At(u, "fail"), payWorker[u].reference \in S!Guarded
    PROVE  provider[payWorker[u].reference] = "failed"
<1>1. OneAlive
  BY StillClear DEF BillInv, InOrder
<1> QED BY <1>1 DEF OneAlive

LEMMA OpenedOK == ASSUME BillInv, NEW r \in References, S!Opened(r) PROVE BillInv'
<1>1. /\ pay[r] # "none" /\ provider[r] = "none" /\ UNCHANGED <<kind, owns, payWorker, charged, grants, payNotes>>
      /\ \/ provider' = [provider EXCEPT ![r] = "open"] /\ pay' = pay
         \/ provider' = [provider EXCEPT ![r] = "closed"] /\ pay' = [pay EXCEPT ![r] = "failed"]
  BY DEF S!Opened
<1>2. /\ \A q \in References \ {r} : pay'[q] = pay[q] /\ provider'[q] = provider[q]
      /\ provider'[r] \in {"open", "closed"} /\ (pay'[r] = pay[r] \/ pay'[r] = "failed")
  BY <1>1 DEF BillInv, BillTypes
<1>3. BillTypes'
  BY <1>1 DEF BillInv, BillTypes, PayStatuses
<1>4. r \notin charged /\ grants[r] = 0 /\ pay[r] \notin {"succeeded", "refunded", "partially refunded"}
  <2>1. PaymentOK(r) /\ grants[r] \in Nat /\ provider[r] \notin {"success", "reversed"}
    BY <1>1 DEF BillInv, BillTypes
  <2>2. r \notin charged
    BY <2>1 DEF PaymentOK
  <2>3. ~(grants[r] > 0) /\ pay[r] \notin {"refunded", "partially refunded"}
    BY <2>1, <2>2 DEF PaymentOK
  <2>4. pay[r] # "succeeded"
    BY <2>1, <2>3 DEF PaymentOK
  <2>5. grants[r] = 0
    <3>1. grants[r] \in Nat
      BY <2>1
    <3>2. ~(grants[r] > 0)
      BY <2>3
    <3> QED BY <3>1, <3>2
  <2>6. pay[r] \notin {"succeeded", "refunded", "partially refunded"}
    BY <2>3, <2>4
  <2> QED BY <2>2, <2>5, <2>6
<1>5. ASSUME NEW q \in References PROVE PaymentOK(q)'
  <2>1. CASE q = r
    <3>1. /\ provider'[r] \notin {"success", "reversed"} /\ r \notin charged' /\ grants'[r] = 0
          /\ pay'[r] # "none" /\ pay'[r] # "succeeded" /\ pay'[r] \notin {"refunded", "partially refunded"}
      BY <1>1, <1>2, <1>4
    <3>4. grants'[r] = 0
      BY <3>1
    <3>2. ~(grants'[r] > 0)
      BY <3>4
    <3>3. grants'[r] <= 1 /\ grants'[r] # 1
      BY <3>4
    <3> QED BY <2>1, <3>1, <3>2, <3>3 DEF PaymentOK
  <2>2. CASE q # r
    BY <1>1, <1>2, <2>2, PaymentStays DEF BillInv
  <2> QED BY <2>1, <2>2
<1>6. ASSUME NEW u \in Users, payWorker'[u] # S!None PROVE SettlingOK(payWorker[u])'
  <2>1. \A q \in References : pay[q] # "none" => pay'[q] # "none"
    BY <1>2
  <2> QED BY <1>1, <1>6, <2>1, SettlingStays
<1>7. InOrder' => OneAlive'
  <2> SUFFICES ASSUME InOrder' PROVE OneAlive'
    OBVIOUS
  <2>1. OneAlive /\ S!Guarded' = S!Guarded /\ S!Guarded \subseteq References
    BY <1>1, StillClear DEF BillInv, InOrder, S!Guarded
  <2>2. Alive' \subseteq Alive /\ \A q \in Alive \ {r} : q \in Alive'
    BY <1>2, <2>1 DEF Alive
  <2>3. charged' \cap S!Guarded \subseteq Alive'
    BY <1>1, <1>4, <2>1, <2>2 DEF OneAlive
  <2>4. ASSUME NEW q \in Alive', pay'[q] = "succeeded" PROVE "integration" \in owns'
    <3>1. pay[q] = "succeeded" /\ q \in Alive
      BY <1>2, <1>4, <2>1, <2>2, <2>4 DEF Alive
    <3> QED BY <1>1, <2>1, <3>1 DEF OneAlive
  <2>5. ASSUME NEW u \in Users, S!At(u, "fail")', payWorker'[u].reference \in S!Guarded
        PROVE provider'[payWorker'[u].reference] = "failed"
    <3>1. S!At(u, "fail") /\ payWorker'[u] = payWorker[u]
      BY <1>1, <2>5 DEF S!At
    <3>2. provider[payWorker[u].reference] = "failed"
      BY <2>1, <2>5, <3>1 DEF OneAlive
    <3> QED BY <1>1, <1>2, <2>1, <2>5, <3>1, <3>2
  <2>6. ASSUME NEW q \in S!Guarded PROVE Straight(q)'
    <3>1. CASE q # r
      BY <1>2, <2>1, <3>1 DEF OneAlive, Straight
    <3>2. CASE q = r
      <4>1. pay[r] # "failed" /\ pay[r] # "partially refunded"
        BY <1>1, <1>4, <2>1, <3>2 DEF OneAlive, Straight
      <4>2. pay'[r] = "failed" => provider'[r] = "closed"
        BY <1>1, <4>1 DEF BillInv, BillTypes
      <4> QED BY <1>2, <3>2, <4>1, <4>2 DEF Straight
    <3> QED BY <3>1, <3>2
  <2> QED BY <1>1, <2>1, <2>2, <2>3, <2>4, <2>5, <2>6, OneAliveStays
<1>8. Owed'
  <2>1. \A q \in S!Guarded : S!Paid(q) => S!Paid(q)'
    BY <1>1, <1>2, <1>4 DEF S!Paid, S!Guarded
  <2> QED BY <1>1, <2>1, StillClear DEF BillInv, Owed
<1> QED BY <1>3, <1>5, <1>6, <1>7, <1>8 DEF BillInv

\* A charge, or its reversal: at the provider alone.
LEMMA ProviderStepOK ==
    ASSUME BillInv, NEW r \in References, NEW outcome \in {"failed", "success", "reversed"},
           provider' = [provider EXCEPT ![r] = outcome], outcome = "failed" => provider[r] = "open" /\ charged' = charged,
           outcome = "success" => charged' = charged \cup {r},
           outcome = "reversed" => provider[r] = "success" /\ charged' = charged,
           provider[r] # "none", payNotes \subseteq payNotes',
           outcome = "success" => provider[r] \in {"open", "failed"} /\ (provider[r] = "failed" => <<"paid after failure", r>> \in payNotes'),
           outcome = "reversed" => <<"refunded", r>> \in payNotes',
           UNCHANGED <<kind, pay, owns, payWorker, grants>>
    PROVE  BillInv'
<1>1. provider'[r] = outcome /\ \A q \in References \ {r} : provider'[q] = provider[q]
  BY DEF BillInv, BillTypes
<1>2. charged \subseteq charged' /\ charged' \subseteq References /\ (\A q \in References \ {r} : q \in charged' <=> q \in charged)
      /\ (r \in charged' <=> outcome \in {"success", "reversed"})
  BY DEF BillInv, BillTypes, PaymentOK
<1>3. BillTypes'
  BY <1>2 DEF BillInv, BillTypes
<1>4. ASSUME NEW q \in References PROVE PaymentOK(q)'
  <2>1. CASE q = r
    <3>1. PaymentOK(r) /\ (S!Clear(r, {"failed blindly", "granted after refund"})' => S!Clear(r, {"failed blindly", "granted after refund"}))
      BY StillClear DEF BillInv
    <3> QED BY <1>1, <1>2, <2>1, <3>1 DEF PaymentOK
  <2>2. CASE q # r
    BY <1>1, <1>2, <2>2, PaymentStays DEF BillInv
  <2> QED BY <2>1, <2>2
<1>5. ASSUME NEW u \in Users, payWorker'[u] # S!None PROVE SettlingOK(payWorker[u])'
  BY <1>2, <1>5, SettlingStays
<1>6. InOrder' => OneAlive'
  <2> SUFFICES ASSUME InOrder' PROVE OneAlive'
    OBVIOUS
  <2>1. OneAlive /\ S!Guarded' = S!Guarded /\ S!Guarded \subseteq References /\ Alive' = Alive
    BY StillClear DEF BillInv, InOrder, S!Guarded, Alive
  <2>2. r \in S!Guarded => outcome # "reversed" /\ provider[r] # "failed"
    <3> SUFFICES ASSUME r \in S!Guarded PROVE outcome # "reversed" /\ provider[r] # "failed"
      OBVIOUS
    <3>1. <<"paid after failure", r>> \notin payNotes' /\ <<"refunded", r>> \notin payNotes'
      BY <2>1 DEF InOrder, S!Undisturbed, S!Clear
    <3> QED BY <3>1
  <2>3. charged' \cap S!Guarded \subseteq Alive'
    <3> SUFFICES ASSUME r \in charged', r \in S!Guarded PROVE r \in Alive
      BY <1>2, <2>1 DEF OneAlive
    <3>1. outcome = "success"
      BY <1>2, <2>2
    <3>2. PaymentOK(r) /\ pay[r] # "none" /\ pay[r] # "refunded" /\ pay[r] # "partially refunded"
      BY <3>1 DEF BillInv, PaymentOK
    <3>3. pay[r] # "failed"
      BY <2>1, <2>2, <3>1 DEF OneAlive, Straight
    <3> QED BY <3>2, <3>3 DEF Alive, BillInv, BillTypes, PayStatuses
  <2>5. ASSUME NEW u \in Users, S!At(u, "fail")', payWorker'[u].reference \in S!Guarded
        PROVE provider'[payWorker'[u].reference] = "failed"
    <3>1. S!At(u, "fail") /\ payWorker'[u] = payWorker[u]
      BY <2>5 DEF S!At
    <3>2. provider[payWorker[u].reference] = "failed"
      BY <2>1, <2>5, <3>1 DEF OneAlive
    <3> QED BY <1>1, <2>1, <2>2, <2>5, <3>1, <3>2
  <2>6. ASSUME NEW q \in S!Guarded PROVE Straight(q)'
    <3>1. Straight(q)
      BY <2>1 DEF OneAlive
    <3>2. CASE q = r
      BY <1>1, <2>2, <3>1, <3>2 DEF Straight
    <3>3. CASE q # r
      BY <1>1, <2>1, <3>1, <3>3 DEF Straight
    <3> QED BY <3>2, <3>3
  <2> QED BY <2>1, <2>3, <2>5, <2>6, OneAliveStays DEF OneAlive
<1>7. Owed'
  BY StillClear DEF BillInv, Owed, S!Paid, S!Guarded
<1> QED BY <1>3, <1>4, <1>5, <1>6, <1>7 DEF BillInv

LEMMA ChargeOK == ASSUME BillInv, NEW r \in References, S!Charge(r) PROVE BillInv'
<1>1. /\ provider[r] \in {"open", "failed"} /\ UNCHANGED <<kind, pay, owns, payWorker, grants>>
      /\ \/ /\ provider' = [provider EXCEPT ![r] = "success"] /\ charged' = charged \cup {r}
            /\ payNotes' = payNotes \cup S!Lapse(provider[r] = "failed", "paid after failure", r)
         \/ provider[r] = "open" /\ provider' = [provider EXCEPT ![r] = "failed"] /\ UNCHANGED <<charged, payNotes>>
  BY DEF S!Charge
<1>2. CASE provider' = [provider EXCEPT ![r] = "success"] /\ charged' = charged \cup {r}
           /\ payNotes' = payNotes \cup S!Lapse(provider[r] = "failed", "paid after failure", r)
  <2>1. provider[r] = "failed" => <<"paid after failure", r>> \in payNotes'
    BY <1>2 DEF S!Lapse
  <2> QED BY <1>1, <1>2, <2>1, ProviderStepOK
<1>3. CASE provider[r] = "open" /\ provider' = [provider EXCEPT ![r] = "failed"] /\ UNCHANGED <<charged, payNotes>>
  BY <1>1, <1>3, ProviderStepOK
<1> QED BY <1>1, <1>2, <1>3

LEMMA ReverseOK == ASSUME BillInv, NEW r \in References, S!Reverse(r) PROVE BillInv'
<1>1. /\ provider[r] = "success" /\ provider' = [provider EXCEPT ![r] = "reversed"]
      /\ payNotes' = payNotes \cup {<<"refunded", r>>} /\ UNCHANGED <<kind, pay, owns, payWorker, charged, grants>>
  BY DEF S!Reverse
<1> QED BY <1>1, ProviderStepOK

\* A settlement moves on, and payments stay as they are.
LEMMA WorkerMoves ==
    ASSUME BillInv, NEW u \in Users, NEW new \in {S!None} \cup Settling, payWorker' = [payWorker EXCEPT ![u] = new],
           UNCHANGED <<kind, pay, provider, owns, charged, grants, payNotes>>,
           new # S!None => SettlingOK(new),
           new # S!None /\ new.step = "fail" /\ new.reference \in S!Guarded /\ InOrder => provider[new.reference] = "failed"
    PROVE  BillInv'
<1>1. payWorker'[u] = new /\ \A v \in Users \ {u} : payWorker'[v] = payWorker[v]
  BY DEF BillInv, BillTypes
<1>2. BillTypes' /\ Owed' /\ S!Guarded' = S!Guarded /\ Alive' = Alive /\ InOrder' = InOrder
      /\ \A r \in References : PaymentOK(r)'
  BY DEF BillInv, BillTypes, PaymentOK, Owed, Alive, InOrder, S!Guarded, S!Clear, S!Undisturbed, S!Paid
<1>3. ASSUME NEW v \in Users, payWorker'[v] # S!None PROVE SettlingOK(payWorker[v])'
  BY <1>1, <1>3 DEF BillInv, SettlingOK
<1>4. InOrder' => OneAlive'
  <2> SUFFICES ASSUME InOrder' PROVE OneAlive'
    OBVIOUS
  <2>1. OneAlive /\ InOrder
    BY <1>2 DEF BillInv
  <2>2. ASSUME NEW v \in Users, S!At(v, "fail")', payWorker'[v].reference \in S!Guarded
        PROVE  provider'[payWorker'[v].reference] = "failed"
    <3>1. CASE v = u
      BY <1>1, <2>1, <2>2, <3>1 DEF S!At
    <3>2. CASE v # u
      <4>1. S!At(v, "fail") /\ payWorker'[v] = payWorker[v]
        BY <1>1, <2>2, <3>2 DEF S!At
      <4> QED BY <2>1, <2>2, <4>1 DEF OneAlive
    <3> QED BY <3>1, <3>2
  <2> QED BY <1>2, <2>1, <2>2 DEF OneAlive, Straight
<1> QED BY <1>2, <1>3, <1>4 DEF BillInv

LEMMA BeginPayOK == ASSUME BillInv, NEW u \in Users, NEW r \in References, S!Begin(u, r) PROVE BillInv'
<1> DEFINE new == [reference |-> r, step |-> "verify"]
<1>1. /\ pay[r] \notin {"none", "succeeded"} /\ payWorker' = [payWorker EXCEPT ![u] = new]
      /\ UNCHANGED <<kind, pay, provider, owns, charged, grants, payNotes>>
  BY DEF S!Begin, S!Goto
<1>2. new \in Settling /\ new.step = "verify" /\ new.reference = r
  BY DEF Settling
<1>3. SettlingOK(new) /\ new.step # "fail"
  BY <1>1, <1>2 DEF SettlingOK
<1> HIDE DEF new
<1> QED BY <1>1, <1>2, <1>3, WorkerMoves

LEMMA VerifyOK == ASSUME BillInv, NEW u \in Users, S!Verify(u) PROVE BillInv'
<1> DEFINE w == payWorker[u]
           r == w.reference
<1>1. /\ w # S!None /\ w.step = "verify" /\ UNCHANGED <<kind, pay, provider, owns, charged, grants, payNotes>>
      /\ \/ provider[r] = "success" /\ payWorker' = [payWorker EXCEPT ![u] = [w EXCEPT !.step = "grant"]]
         \/ /\ provider[r] \in {"failed", "reversed"} \/ (provider[r] = "success" /\ r \notin S!Guarded)
            /\ payWorker' = [payWorker EXCEPT ![u] = [w EXCEPT !.step = "fail"]]
         \/ payWorker' = [payWorker EXCEPT ![u] = S!None]
  BY DEF S!Verify, S!At, S!Goto
<1>2. w \in Settling /\ r \in References /\ SettlingOK(w)
  BY <1>1, SettlingShape DEF BillInv
<1>3. CASE provider[r] = "success" /\ payWorker' = [payWorker EXCEPT ![u] = [w EXCEPT !.step = "grant"]]
  <2> DEFINE new == [w EXCEPT !.step = "grant"]
  <2>1. new \in Settling /\ new.reference = r /\ new.step = "grant"
    BY <1>2 DEF Settling
  <2>2. r \in charged
    BY <1>2, <1>3 DEF BillInv, PaymentOK
  <2> HIDE DEF new
  <2>3. SettlingOK(new)
    BY <1>2, <2>1, <2>2 DEF SettlingOK
  <2>4. new.step # "fail"
    BY <2>1
  <2>5. payWorker' = [payWorker EXCEPT ![u] = new]
    BY <1>3 DEF new
  <2> QED BY <1>1, <2>1, <2>3, <2>4, <2>5, WorkerMoves
<1>4. CASE /\ provider[r] \in {"failed", "reversed"} \/ (provider[r] = "success" /\ r \notin S!Guarded)
           /\ payWorker' = [payWorker EXCEPT ![u] = [w EXCEPT !.step = "fail"]]
  <2> DEFINE new == [w EXCEPT !.step = "fail"]
  <2>1. new \in Settling /\ new.reference = r /\ new.step = "fail"
    BY <1>2 DEF Settling
  <2>2. InOrder /\ r \in S!Guarded => provider[r] # "reversed"
    <3> SUFFICES ASSUME InOrder, r \in S!Guarded, provider[r] = "reversed" PROVE FALSE
      OBVIOUS
    <3> QED BY <1>2 DEF BillInv, OneAlive, Straight
  <2> HIDE DEF new
  <2>3. SettlingOK(new)
    BY <1>2, <2>1 DEF SettlingOK
  <2>4. new.reference \in S!Guarded /\ InOrder => provider[new.reference] = "failed"
    BY <1>4, <2>1, <2>2
  <2>5. payWorker' = [payWorker EXCEPT ![u] = new]
    BY <1>4 DEF new
  <2> QED BY <1>1, <2>1, <2>3, <2>4, <2>5, WorkerMoves
<1>5. CASE payWorker' = [payWorker EXCEPT ![u] = S!None]
  <2>1. S!None \in {S!None} \cup Settling
    OBVIOUS
  <2> QED BY <1>1, <1>5, <2>1, WorkerMoves
<1> QED BY <1>1, <1>3, <1>4, <1>5
\* A settlement has ended: the others are where they were.
LEMMA Ended ==
    ASSUME BillInv, NEW u \in Users, payWorker' = [payWorker EXCEPT ![u] = S!None], charged' = charged, provider' = provider,
           kind' = kind, payNotes \subseteq payNotes', \A r \in References : pay[r] # "none" => pay'[r] # "none"
    PROVE  /\ payWorker' \in [Users -> {S!None} \cup Settling]
           /\ \A v \in Users : payWorker'[v] # S!None => SettlingOK(payWorker[v])'
           /\ InOrder' => \A v \in Users : S!At(v, "fail")' /\ payWorker'[v].reference \in S!Guarded =>
                  provider'[payWorker'[v].reference] = "failed"
<1>1. payWorker'[u] = S!None /\ \A v \in Users \ {u} : payWorker'[v] = payWorker[v]
  BY DEF BillInv, BillTypes
<1>2. ASSUME NEW v \in Users, payWorker'[v] # S!None PROVE SettlingOK(payWorker[v])'
  BY <1>1, <1>2, SettlingStays
<1>3. ASSUME InOrder', NEW v \in Users, S!At(v, "fail")', payWorker'[v].reference \in S!Guarded
      PROVE  provider'[payWorker'[v].reference] = "failed"
  <2>1. payWorker'[v] = payWorker[v] /\ S!At(v, "fail")
    BY <1>1, <1>3 DEF S!At
  <2> QED BY <1>3, <2>1, FailingStays
<1> QED BY <1>1, <1>2, <1>3 DEF BillInv, BillTypes

LEMMA MarkFailedOK == ASSUME BillInv, NEW u \in Users, S!MarkFailed(u) PROVE BillInv'
<1>0. PICK r \in References : r = payWorker[u].reference
  BY SettlingShape DEF BillInv, S!MarkFailed, S!At
<1>1. /\ payWorker[u] # S!None /\ payWorker[u].step = "fail" /\ payWorker' = [payWorker EXCEPT ![u] = S!None]
      /\ pay' = [pay EXCEPT ![r] = "failed"]
      /\ payNotes' = payNotes \cup S!Lapse(pay[r] # "pending", "failed blindly", r)
      /\ UNCHANGED <<kind, provider, owns, charged, grants>>
  BY <1>0 DEF S!MarkFailed, S!At, S!Goto
<1>2. r \in References /\ SettlingOK(payWorker[u])
  BY <1>1 DEF BillInv
<1>3. pay'[r] = "failed" /\ (\A q \in References \ {r} : pay'[q] = pay[q]) /\ pay' \in [References -> PayStatuses]
  BY <1>1, <1>2 DEF BillInv, BillTypes, PayStatuses
<1>4. payNotes \subseteq payNotes' /\ (pay[r] # "pending" => <<"failed blindly", r>> \in payNotes')
  BY <1>1 DEF S!Lapse
<1>5. /\ payWorker' \in [Users -> {S!None} \cup Settling]
      /\ \A v \in Users : payWorker'[v] # S!None => SettlingOK(payWorker[v])'
      /\ InOrder' => \A v \in Users : S!At(v, "fail")' /\ payWorker'[v].reference \in S!Guarded =>
             provider'[payWorker'[v].reference] = "failed"
  <2>1. \A q \in References : pay[q] # "none" => pay'[q] # "none"
    BY <1>3
  <2> QED BY <1>1, <1>4, <2>1, Ended
<1>6. BillTypes'
  BY <1>1, <1>3, <1>5 DEF BillInv, BillTypes
<1>7. ASSUME NEW q \in References PROVE PaymentOK(q)'
  <2>1. CASE q = r
    <3>1. PaymentOK(r) /\ grants[r] \in Nat
      BY <1>2 DEF BillInv, BillTypes
    <3>2. S!Clear(r, {"failed blindly", "granted after refund"})' => pay[r] = "pending"
      BY <1>4 DEF S!Clear
    <3>3. S!Clear(r, {"failed blindly", "granted after refund"})' => S!Clear(r, {"failed blindly", "granted after refund"})
      BY <1>1, <1>2, <1>4, StillClear
    <3>4. S!Clear(r, {"failed blindly", "granted after refund"})' => grants[r] <= 1 /\ grants[r] # 1
      BY <3>1, <3>2, <3>3 DEF PaymentOK
    <3> QED BY <1>1, <1>3, <2>1, <3>1, <3>4 DEF PaymentOK
  <2>2. CASE q # r
    BY <1>1, <1>3, <1>4, <2>2, PaymentStays DEF BillInv
  <2> QED BY <2>1, <2>2
<1>8. InOrder' => OneAlive'
  <2> SUFFICES ASSUME InOrder' PROVE OneAlive'
    OBVIOUS
  <2>1. OneAlive /\ S!Guarded' = S!Guarded /\ S!Guarded \subseteq References
    BY <1>1, <1>4, StillClear DEF BillInv, InOrder, S!Guarded
  <2>2. r \in S!Guarded => provider[r] = "failed"
    BY <1>0, <1>1, <2>1 DEF OneAlive, S!At
  <2>3. r \in S!Guarded => r \notin charged
    BY <1>2, <2>2 DEF BillInv, PaymentOK
  <2>4. Alive' \subseteq Alive /\ \A q \in Alive \ {r} : q \in Alive'
    BY <1>3, <2>1 DEF Alive
  <2>5. charged' \cap S!Guarded \subseteq Alive'
    BY <1>1, <2>1, <2>3, <2>4 DEF OneAlive
  <2>6. ASSUME NEW q \in Alive', pay'[q] = "succeeded" PROVE "integration" \in owns'
    <3>1. q # r /\ q \in References
      BY <1>3, <2>1, <2>6 DEF Alive
    <3> QED BY <1>1, <1>3, <2>1, <2>4, <2>6, <3>1 DEF OneAlive
  <2>7. ASSUME NEW q \in S!Guarded PROVE Straight(q)'
    BY <1>1, <1>3, <2>1, <2>2 DEF OneAlive, Straight
  <2> QED BY <1>1, <1>4, <1>5, <2>1, <2>4, <2>5, <2>6, <2>7, OneAliveStays
<1>9. Owed'
  <2> SUFFICES ASSUME S!Undisturbed({"failed blindly"})', "integration" \in owns' PROVE \E q \in S!Guarded' : S!Paid(q)'
    BY DEF Owed
  <2>1. S!Undisturbed({"failed blindly"}) /\ S!Guarded' = S!Guarded
    BY <1>1, <1>4, StillClear
  <2>2. PICK q \in S!Guarded : S!Paid(q)
    BY <1>1, <2>1 DEF BillInv, Owed
  <2>3. q # r
    <3> SUFFICES ASSUME q = r PROVE FALSE
      OBVIOUS
    <3>1. <<"failed blindly", r>> \in payNotes'
      BY <1>4, <2>2 DEF S!Paid
    <3> QED BY <2>1, <2>2, <3>1 DEF S!Undisturbed, S!Clear
  <2>4. S!Paid(q)'
    BY <1>1, <1>3, <2>2, <2>3 DEF S!Paid, S!Guarded
  <2> QED BY <2>1, <2>4
<1> QED BY <1>5, <1>6, <1>7, <1>8, <1>9 DEF BillInv

LEMMA GrantOK == ASSUME BillInv, NEW u \in Users, S!Grant(u) PROVE BillInv'
<1>0. PICK r \in References : r = payWorker[u].reference
  BY SettlingShape DEF BillInv, S!Grant, S!At
<1>1. /\ payWorker[u] # S!None /\ payWorker[u].step = "grant" /\ payWorker' = [payWorker EXCEPT ![u] = S!None]
      /\ UNCHANGED <<kind, provider, charged>>
      /\ IF pay[r] = "succeeded" THEN UNCHANGED <<pay, owns, grants, payNotes>>
         ELSE /\ pay' = [pay EXCEPT ![r] = "succeeded"] /\ owns' = owns \cup {kind[r]}
              /\ grants' = [grants EXCEPT ![r] = @ + 1]
              /\ payNotes' = payNotes \cup S!Lapse(pay[r] \in {"refunded", "partially refunded"}, "granted after refund", r)
  BY <1>0 DEF S!Grant, S!Granted, S!At, S!Goto
<1>2. r \in References /\ r \in charged /\ pay[r] # "none"
  BY <1>0, <1>1, SettlingShape DEF BillInv, SettlingOK
<1>3. CASE pay[r] = "succeeded"
  <2>1. UNCHANGED <<pay, owns, grants, payNotes>>
    BY <1>1, <1>3
  <2>2. S!None \in {S!None} \cup Settling
    OBVIOUS
  <2> QED BY <1>1, <2>1, <2>2, WorkerMoves
<1>4. CASE pay[r] # "succeeded"
  <2>1. /\ pay' = [pay EXCEPT ![r] = "succeeded"] /\ owns' = owns \cup {kind[r]} /\ grants' = [grants EXCEPT ![r] = @ + 1]
        /\ payNotes' = payNotes \cup S!Lapse(pay[r] \in {"refunded", "partially refunded"}, "granted after refund", r)
    BY <1>1, <1>4
  <2>2. /\ pay'[r] = "succeeded" /\ (\A q \in References \ {r} : pay'[q] = pay[q]) /\ pay' \in [References -> PayStatuses]
        /\ owns' \subseteq {"plan", "integration"} /\ kind[r] \in owns' /\ owns \subseteq owns'
    BY <1>2, <2>1 DEF BillInv, BillTypes, PayStatuses
  <2>3. grants' \in [References -> Nat] /\ grants'[r] = grants[r] + 1 /\ \A q \in References \ {r} : grants'[q] = grants[q]
    <3>1. grants \in [References -> Nat] /\ grants' = [grants EXCEPT ![r] = @ + 1]
      BY <2>1 DEF BillInv, BillTypes
    <3> QED BY <3>1
  <2>4. payNotes \subseteq payNotes' /\ (pay[r] \in {"refunded", "partially refunded"} => <<"granted after refund", r>> \in payNotes')
    BY <2>1 DEF S!Lapse
  <2>5. /\ payWorker' \in [Users -> {S!None} \cup Settling]
        /\ \A v \in Users : payWorker'[v] # S!None => SettlingOK(payWorker[v])'
        /\ InOrder' => \A v \in Users : S!At(v, "fail")' /\ payWorker'[v].reference \in S!Guarded =>
               provider'[payWorker'[v].reference] = "failed"
    <3>1. \A q \in References : pay[q] # "none" => pay'[q] # "none"
      BY <2>2
    <3> QED BY <1>1, <2>4, <3>1, Ended
  <2>6. BillTypes'
    BY <1>1, <2>2, <2>3, <2>5 DEF BillInv, BillTypes
  <2>10. grants[r] \in Nat /\ grants'[r] > 0
    <3>1. grants[r] \in Nat
      BY <1>2 DEF BillInv, BillTypes
    <3> QED BY <2>3, <3>1
  <2>7. ASSUME NEW q \in References PROVE PaymentOK(q)'
    <3>1. CASE q = r
      <4>1. PaymentOK(r) /\ r \in charged'
        BY <1>1, <1>2 DEF BillInv
      <4>2. grants[r] \in Nat
        BY <2>10
      <4>3. S!Clear(r, {"failed blindly", "granted after refund"})' => pay[r] \notin {"refunded", "partially refunded"}
        BY <2>4 DEF S!Clear
      <4>4. S!Clear(r, {"failed blindly", "granted after refund"})' => S!Clear(r, {"failed blindly", "granted after refund"})
        BY <1>1, <1>2, <2>4, StillClear
      <4>5. S!Clear(r, {"failed blindly", "granted after refund"})' => grants[r] <= 1 /\ grants[r] # 1
        BY <1>4, <4>1, <4>3, <4>4 DEF PaymentOK
      <4>6. S!Clear(r, {"failed blindly", "granted after refund"})' => grants'[r] <= 1
        <5>1. grants'[r] = grants[r] + 1
          BY <2>3
        <5>2. grants[r] <= 1 /\ grants[r] # 1 => grants'[r] <= 1
          BY <4>2, <5>1
        <5> QED BY <4>5, <5>2
      <4> QED BY <1>1, <2>2, <2>10, <3>1, <4>1, <4>6 DEF PaymentOK
    <3>2. CASE q # r
      BY <1>1, <2>2, <2>3, <2>4, <3>2, PaymentStays DEF BillInv
    <3> QED BY <3>1, <3>2
  <2>8. InOrder' => OneAlive'
    <3> SUFFICES ASSUME InOrder' PROVE OneAlive'
      OBVIOUS
    <3>1. OneAlive /\ S!Guarded' = S!Guarded /\ S!Guarded \subseteq References
      BY <1>1, <2>4, StillClear DEF BillInv, InOrder, S!Guarded
    <3>2. Alive' = Alive
      <4>1. r \in S!Guarded => r \in Alive
        BY <1>2, <3>1 DEF OneAlive
      <4> QED BY <2>2, <3>1, <4>1 DEF Alive
    <3>3. ASSUME NEW q \in Alive', pay'[q] = "succeeded" PROVE "integration" \in owns'
      <4>1. CASE q = r
        BY <2>2, <3>1, <3>3, <4>1 DEF Alive, S!Guarded
      <4>2. CASE q # r
        BY <2>2, <3>1, <3>2, <3>3, <4>2 DEF OneAlive, Alive
      <4> QED BY <4>1, <4>2
    <3>4. ASSUME NEW q \in S!Guarded PROVE Straight(q)'
      BY <1>1, <2>2, <3>1 DEF OneAlive, Straight
    <3> QED BY <1>1, <2>4, <2>5, <3>1, <3>2, <3>3, <3>4, OneAliveStays DEF OneAlive
  <2>9. Owed'
    <3> SUFFICES ASSUME S!Undisturbed({"failed blindly"})', "integration" \in owns' PROVE \E q \in S!Guarded' : S!Paid(q)'
      BY DEF Owed
    <3>1. S!Undisturbed({"failed blindly"}) /\ S!Guarded' = S!Guarded
      BY <1>1, <2>4, StillClear
    <3>3. CASE r \in S!Guarded
      <4>1. S!Paid(r)'
        BY <2>2, <2>10 DEF S!Paid
      <4> QED BY <3>1, <3>3, <4>1
    <3>4. CASE r \notin S!Guarded
      <4>1. kind[r] # "integration"
        BY <1>2, <3>4 DEF S!Guarded
      <4>2. PICK q \in S!Guarded : S!Paid(q)
        BY <2>1, <3>1, <4>1 DEF BillInv, Owed
      <4>3. S!Paid(q)'
        BY <2>2, <2>3, <3>4, <4>2 DEF S!Paid, S!Guarded
      <4> QED BY <3>1, <4>3
    <3> QED BY <3>3, <3>4
  <2> QED BY <2>5, <2>6, <2>7, <2>8, <2>9 DEF BillInv
<1> QED BY <1>3, <1>4

LEMMA RefundOK == ASSUME BillInv, NEW r \in References, NEW full \in BOOLEAN, S!Refund(r, full) PROVE BillInv'
<1>1. /\ r \in charged /\ pay' = [pay EXCEPT ![r] = IF full THEN "refunded" ELSE "partially refunded"]
      /\ owns' = IF full /\ r \in S!Guarded THEN owns \ {kind[r]} ELSE owns
      /\ payNotes' = payNotes \cup {<<"refunded", r>>} /\ UNCHANGED <<kind, provider, payWorker, charged, grants>>
  BY DEF S!Refund
<1>2. /\ pay'[r] = (IF full THEN "refunded" ELSE "partially refunded") /\ (\A q \in References \ {r} : pay'[q] = pay[q])
      /\ pay' \in [References -> PayStatuses]
  BY <1>1 DEF BillInv, BillTypes, PayStatuses
<1>3. BillTypes'
  BY <1>1, <1>2 DEF BillInv, BillTypes
<1>4. payNotes \subseteq payNotes' /\ <<"refunded", r>> \in payNotes'
  BY <1>1
<1>5. ASSUME NEW q \in References PROVE PaymentOK(q)'
  <2>1. CASE q = r
    <3>1. PaymentOK(r) /\ (S!Clear(r, {"failed blindly", "granted after refund"})' => S!Clear(r, {"failed blindly", "granted after refund"}))
      BY <1>1, <1>4, StillClear DEF BillInv
    <3>2. pay'[r] \in {"refunded", "partially refunded"}
      BY <1>2
    <3> QED BY <1>1, <2>1, <3>1, <3>2 DEF PaymentOK
  <2>2. CASE q # r
    BY <1>1, <1>2, <1>4, <2>2, PaymentStays DEF BillInv
  <2> QED BY <2>1, <2>2
<1>6. ASSUME NEW u \in Users, payWorker'[u] # S!None PROVE SettlingOK(payWorker[u])'
  <2>1. \A q \in References : pay[q] # "none" => pay'[q] # "none"
    BY <1>2
  <2> QED BY <1>1, <1>6, <2>1, SettlingStays
<1>7. InOrder' => OneAlive'
  <2> SUFFICES ASSUME InOrder' PROVE OneAlive'
    OBVIOUS
  <2>1. OneAlive /\ S!Guarded' = S!Guarded /\ S!Guarded \subseteq References
    BY <1>1, <1>4, StillClear DEF BillInv, InOrder, S!Guarded
  <2>2. r \notin S!Guarded
    BY <1>4, <2>1 DEF InOrder, S!Undisturbed, S!Clear
  <2>3. Alive' = Alive /\ owns' = owns
    BY <1>1, <1>2, <2>1, <2>2 DEF Alive
  <2>4. \A q \in Alive' : pay'[q] = "succeeded" => "integration" \in owns'
    BY <1>2, <2>1, <2>2, <2>3 DEF OneAlive, Alive
  <2>5. ASSUME NEW q \in S!Guarded PROVE Straight(q)'
    BY <1>1, <1>2, <2>1, <2>2 DEF OneAlive, Straight
  <2>6. \A v \in Users : S!At(v, "fail")' => S!At(v, "fail") /\ payWorker'[v] = payWorker[v]
    BY <1>1 DEF S!At
  <2> QED BY <1>1, <1>4, <2>1, <2>3, <2>4, <2>5, <2>6, OneAliveStays DEF OneAlive
<1>8. Owed'
  <2> SUFFICES ASSUME S!Undisturbed({"failed blindly"})', "integration" \in owns' PROVE \E q \in S!Guarded' : S!Paid(q)'
    BY DEF Owed
  <2>1. S!Undisturbed({"failed blindly"}) /\ S!Guarded' = S!Guarded
    BY <1>1, <1>4, StillClear
  <2>2. PICK q \in S!Guarded : S!Paid(q)
    BY <1>1, <2>1 DEF BillInv, Owed
  <2>3. q = r => ~full
    <3>1. r \in S!Guarded => kind[r] = "integration"
      BY DEF S!Guarded
    <3> QED BY <1>1, <2>2, <3>1
  <2>4. S!Paid(q)'
    BY <1>1, <1>2, <2>2, <2>3 DEF S!Paid, S!Guarded
  <2> QED BY <2>1, <2>4
<1> QED BY <1>3, <1>5, <1>6, <1>7, <1>8 DEF BillInv

LEMMA BillStepOK == ASSUME BillInv, [S!Next]_(S!vars) PROVE BillInv'
<1>1. ASSUME NEW r \in References, S!Initiate(r) \/ S!Opened(r) \/ S!Charge(r) \/ S!Reverse(r) \/ S!Refund(r, TRUE) \/ S!Refund(r, FALSE)
      PROVE  BillInv'
  BY <1>1, InitiateOK, OpenedOK, ChargeOK, ReverseOK, RefundOK
<1>2. ASSUME NEW r \in References, NEW u \in Users, S!Begin(u, r) PROVE BillInv'
  BY <1>2, BeginPayOK
<1>3. ASSUME NEW u \in Users, S!Verify(u) \/ S!MarkFailed(u) \/ S!Grant(u) PROVE BillInv'
  BY <1>3, VerifyOK, MarkFailedOK, GrantOK
<1>4. ASSUME UNCHANGED S!vars PROVE BillInv'
  <2>1. UNCHANGED <<kind, pay, provider, owns, payWorker, charged, grants, payNotes>>
    BY <1>4 DEF S!vars
  <2>2. BillTypes' /\ \A r \in References : PaymentOK(r)'
    BY <2>1 DEF BillInv, BillTypes, PaymentOK, S!Clear
  <2>3. S!Guarded' = S!Guarded /\ Alive' = Alive /\ InOrder' = InOrder
    BY <2>1 DEF Alive, InOrder, S!Guarded, S!Clear, S!Undisturbed
  <2>4. Owed' /\ \A u \in Users : payWorker'[u] # S!None => SettlingOK(payWorker[u])'
    BY <2>1, <2>3 DEF BillInv, Owed, SettlingOK, S!Undisturbed, S!Clear, S!Paid
  <2>5. OneAlive <=> OneAlive'
    BY <2>1, <2>3 DEF OneAlive, Straight, S!At
  <2> QED BY <2>2, <2>3, <2>4, <2>5 DEF BillInv
<1> QED BY <1>1, <1>2, <1>3, <1>4 DEF S!Next

\* What is charged, granted and owned agree in every state, as far as nothing was paid late,
\* refunded or marked as failed without being asked about (PaystackService.initialize_payment,
\* verify_payment and its webhook).
THEOREM BillingInvariance == S!Spec => []BillInv
<1>1. S!Init => BillInv
  BY BillInitOK
<1>2. BillInv /\ [S!Next]_(S!vars) => BillInv'
  BY BillStepOK
<1> QED BY <1>1, <1>2, PTL DEF S!Spec

LEMMA BillCounts == \A X : S!Cardinality(X) = Cardinality(X)
BY DEF S!Cardinality, Cardinality

LEMMA BillFollows == ASSUME BillInv PROVE S!GrantedOnce /\ S!PaidOnce /\ S!TypeOK
<1>1. S!GrantedOnce
  BY DEF BillInv, PaymentOK, S!GrantedOnce
<1>2. ASSUME InOrder PROVE S!Cardinality(charged \cap S!Guarded) <= 1
  <2>1. charged \cap S!Guarded \subseteq Alive /\ \A r, q \in Alive : r = q
    BY <1>2 DEF BillInv, OneAlive
  <2>2. charged \cap S!Guarded = {} \/ \E r \in Alive : charged \cap S!Guarded = {r}
    BY <2>1
  <2>3. Cardinality(charged \cap S!Guarded) = 0 \/ Cardinality(charged \cap S!Guarded) = 1
    BY <2>2, FS_EmptySet, FS_Singleton
  <2> QED BY <2>3, BillCounts
<1>3. ASSUME InOrder, NEW r \in S!Guarded, S!Paid(r) PROVE "integration" \in owns
  <2>1. OneAlive /\ pay[r] = "succeeded"
    BY <1>3 DEF BillInv, OneAlive, Straight, S!Paid
  <2> QED BY <1>3, <2>1 DEF OneAlive, Alive
<1>4. S!PaidOnce
  BY <1>2, <1>3 DEF S!PaidOnce, InOrder, BillInv, Owed
<1> QED BY <1>1, <1>4 DEF BillInv, BillTypes, PayStatuses, S!TypeOK

-----------------------------------------------------------------------------
(* Leave.                                                                  *)

LeaveRow == [status : {"none", "pending", "approved", "rejected", "cancelled"}, days : Nat]
Balances == [accrued : 0..Ceiling, taken : Nat, pending : Nat]
Raising == [step : {"raise", "hold"}, request : Leaves, days : Nat, copy : Balances, direct : BOOLEAN]
Judging == [step : {"read"}, op : {"approve", "reject", "cancel"}, request : Leaves, seen : LeaveRow]
Locking == [step : {"locked"}, op : {"approve", "reject", "cancel"}, request : Leaves, seen : LeaveRow, copy : Balances]
Cashing == [step : {"encash"}, days : Nat, copy : Balances]

LeaveTypes ==
    /\ direct \in BOOLEAN /\ request \in [Leaves -> LeaveRow] /\ attendance \subseteq Leaves /\ balance \in Balances
    /\ cashing \in [status : {"none", "pending", "applied", "cancelled"}, days : Nat]
    /\ accrued \in Int /\ baseline \in Int /\ today \in Nat \ {0} /\ sources \subseteq 0..today /\ leaveOps \in 0..MaxOps
    /\ leaveWork \in [Users -> {L!Idle} \cup Raising \cup Judging \cup Locking \cup Cashing]

\* Who raises a request is the only one, and nobody has seen it before; who decides one saw that it
\* can be; one encashment is under way at most, of an employee who never had one.
Raises(u) == leaveWork[u].step \in {"raise", "hold"}
LeaveWorkOK(u) ==
    /\ leaveWork[u].step = "raise" => request[leaveWork[u].request].status = "none"
    /\ leaveWork[u].step = "hold" => request[leaveWork[u].request].status # "none"
    /\ leaveWork[u].step \in {"read", "locked"} =>
          /\ L!Decidable(leaveWork[u].op, leaveWork[u].seen.status)
          /\ request[leaveWork[u].request].status # "none"
    /\ leaveWork[u].step = "encash" => cashing.status = "none"
    /\ \A v \in Users \ {u} :
          /\ Raises(u) /\ Raises(v) => leaveWork[v].request # leaveWork[u].request
          /\ leaveWork[u].step = "encash" => leaveWork[v].step # "encash"

\* The days of each request that wait or are taken: those of one being raised do not count yet.
Held == {q \in Leaves : \E u \in Users : leaveWork[u].step = "hold" /\ leaveWork[u].request = q}
Waits == [q \in Leaves |-> IF request[q].status = "pending" /\ q \notin Held THEN request[q].days ELSE 0]
Took == [q \in Leaves |-> IF request[q].status = "approved" THEN request[q].days ELSE 0]

Fair == leaveLapses \cap {"raced", "decided twice", "patched", "approved unseen"} = {}
BalanceOK ==
    /\ balance.pending = Sum(Waits, Leaves) /\ balance.taken = Sum(Took, Leaves) + cashing.days
    /\ \A u \in Users : leaveWork[u].step = "hold" =>
          request[leaveWork[u].request] = [status |-> "pending", days |-> leaveWork[u].days]
    /\ "overbooked" \notin leaveLapses =>
          /\ L!Available(balance) >= 0
          /\ \A u \in Users : Raises(u) \/ leaveWork[u].step = "encash" => L!Covered(leaveWork[u].copy, leaveWork[u].days)

LeaveInv ==
    /\ LeaveTypes /\ \A u \in Users : LeaveWorkOK(u)
    /\ cashing.status = "none" => cashing.days = 0
    /\ (Fair => BalanceOK) /\ L!AttendanceFollowsApproval /\ L!LedgerIsTheBaseline

LEMMA LeaveFinite == ASSUME L!LeaveAssumption PROVE IsFiniteSet(Leaves)
BY DEF L!LeaveAssumption, L!IsFiniteSet, IsFiniteSet

LEMMA WaitsAndTook ==
    ASSUME LeaveTypes
    PROVE  /\ \A q \in Leaves : Waits[q] \in Nat /\ Took[q] \in Nat
           /\ \A q \in Leaves : Waits[q] = IF request[q].status = "pending" /\ q \notin Held THEN request[q].days ELSE 0
           /\ \A q \in Leaves : Took[q] = IF request[q].status = "approved" THEN request[q].days ELSE 0
BY DEF LeaveTypes, LeaveRow, Waits, Took

\* The shapes of what a user is in the middle of.
LEMMA LeaveShape ==
    ASSUME LeaveTypes, NEW u \in Users
    PROVE  /\ Raises(u) => leaveWork[u] \in Raising
           /\ leaveWork[u].step = "read" => leaveWork[u] \in Judging
           /\ leaveWork[u].step = "locked" => leaveWork[u] \in Locking
           /\ leaveWork[u].step = "encash" => leaveWork[u] \in Cashing
<1>1. \/ leaveWork[u] = L!Idle \/ leaveWork[u] \in Raising \/ leaveWork[u] \in Judging
      \/ leaveWork[u] \in Locking \/ leaveWork[u] \in Cashing
  BY DEF LeaveTypes
<1>2. leaveWork[u] = L!Idle => leaveWork[u].step = "idle"
  BY DEF L!Idle
<1> QED BY <1>1, <1>2 DEF Raises, Raising, Judging, Locking, Cashing

LEMMA LeaveInitOK == ASSUME L!LeaveAssumption, L!Init PROVE LeaveInv
<1>1. LeaveTypes
  <2>1. request \in [Leaves -> LeaveRow]
    BY DEF L!Init, LeaveRow
  <2>2. balance \in Balances
    BY DEF L!Init, L!LeaveAssumption, Balances
  <2> QED BY <2>1, <2>2 DEF L!Init, LeaveTypes, L!LeaveAssumption
<1>2. \A u \in Users : leaveWork[u] = L!Idle /\ leaveWork[u].step = "idle"
  BY DEF L!Init, L!Idle
<1>3. \A u \in Users : LeaveWorkOK(u)
  BY <1>2 DEF LeaveWorkOK, Raises
<1>4. BalanceOK
  <2>1. \A q \in Leaves : Waits[q] = 0 /\ Took[q] = 0
    BY DEF L!Init, Waits, Took
  <2>2. Sum(Waits, Leaves) = 0 /\ Sum(Took, Leaves) = 0
    BY <2>1, LeaveFinite, SumZero
  <2>3. L!Available(balance) >= 0
    <3>1. Ceiling \in Nat /\ Share \in 0..Ceiling
      BY DEF L!LeaveAssumption
    <3>2. balance.accrued = Ceiling - Share /\ balance.taken = 0 /\ balance.pending = 0
      BY DEF L!Init
    <3> QED BY <3>1, <3>2 DEF L!Available
  <2>4. balance.pending = 0 /\ balance.taken = 0 /\ cashing.days = 0
    BY DEF L!Init
  <2> QED BY <1>2, <2>2, <2>3, <2>4 DEF BalanceOK, Raises
<1>5. L!AttendanceFollowsApproval /\ L!LedgerIsTheBaseline
  BY DEF L!Init, L!AttendanceFollowsApproval, L!LedgerIsTheBaseline
<1> QED BY <1>1, <1>3, <1>4, <1>5 DEF LeaveInv, L!Init
\* What a step of one user leaves of the others.
LEMMA LeaveOthers ==
    ASSUME LeaveInv, NEW u \in Users, NEW new, leaveWork' = [leaveWork EXCEPT ![u] = new],
           \A q \in Leaves : request[q].status # "none" => request'[q].status # "none",
           \A v \in Users \ {u} : leaveWork[v].step = "raise" => request'[leaveWork[v].request].status = "none",
           \A v \in Users \ {u} : leaveWork[v].step = "encash" => cashing'.status = "none" /\ new.step # "encash",
           new.step = "raise" => request'[new.request].status = "none",
           new.step = "hold" => request'[new.request].status # "none",
           new.step \in {"raise", "hold"} => \A v \in Users \ {u} : Raises(v) => leaveWork[v].request # new.request,
           new.step \in {"read", "locked"} => L!Decidable(new.op, new.seen.status) /\ request'[new.request].status # "none",
           new.step = "encash" => cashing'.status = "none"
    PROVE  \A v \in Users : LeaveWorkOK(v)'
<1>1. leaveWork'[u] = new /\ \A v \in Users \ {u} : leaveWork'[v] = leaveWork[v]
  BY DEF LeaveInv, LeaveTypes
<1>2. LeaveWorkOK(u)'
  BY <1>1 DEF LeaveWorkOK, Raises, L!Decidable
<1>3. ASSUME NEW v \in Users \ {u} PROVE LeaveWorkOK(v)'
  <2>1. LeaveWorkOK(v) /\ leaveWork'[v] = leaveWork[v]
    BY <1>1 DEF LeaveInv
  <2>2. leaveWork[v].step \in {"hold", "read", "locked"} => leaveWork[v].request \in Leaves
    BY LeaveShape DEF LeaveInv, Raises, Raising, Judging, Locking
  <2>3. ASSUME NEW t \in Users \ {v}
        PROVE  /\ Raises(v)' /\ Raises(t)' => leaveWork'[t].request # leaveWork'[v].request
               /\ leaveWork'[v].step = "encash" => leaveWork'[t].step # "encash"
    <3>1. CASE t = u
      BY <1>1, <2>1, <3>1 DEF Raises
    <3>2. CASE t # u
      BY <1>1, <2>1, <3>2 DEF Raises, LeaveWorkOK
    <3> QED BY <3>1, <3>2
  <2>4. leaveWork[v].step \in {"hold", "read", "locked"} => request'[leaveWork[v].request].status # "none"
    BY <2>1, <2>2 DEF LeaveWorkOK
  <2>5. leaveWork[v].step \in {"read", "locked"} => L!Decidable(leaveWork[v].op, leaveWork[v].seen.status)
    BY <2>1 DEF LeaveWorkOK
  <2> QED BY <2>1, <2>3, <2>4, <2>5 DEF LeaveWorkOK
<1> QED BY <1>2, <1>3

LEMMA StillFair ==
    ASSUME leaveLapses \subseteq leaveLapses'
    PROVE  /\ Fair' => Fair
           /\ L!AttendanceFollowsApproval /\ UNCHANGED <<request, attendance>> => L!AttendanceFollowsApproval'
           /\ L!LedgerIsTheBaseline /\ UNCHANGED <<accrued, baseline>> => L!LedgerIsTheBaseline'
BY DEF Fair, L!AttendanceFollowsApproval, L!LedgerIsTheBaseline

LEMMA IdleStep == L!Idle.step = "idle"
BY DEF L!Idle

\* A user reads: nothing else changes.
LEMMA LeaveBegins ==
    ASSUME LeaveInv, NEW u \in Users, leaveWork[u].step # "hold",
           NEW new \in Raising \cup Judging \cup Locking \cup Cashing, new.step # "hold",
           leaveWork' = [leaveWork EXCEPT ![u] = new], leaveOps' \in 0..MaxOps, leaveLapses \subseteq leaveLapses',
           UNCHANGED <<direct, request, attendance, balance, cashing, accrued, baseline, sources, today>>,
           \A v \in Users \ {u} : leaveWork[v].step = "encash" => new.step # "encash",
           new.step = "raise" => /\ request[new.request].status = "none"
                                 /\ \A v \in Users \ {u} : Raises(v) => leaveWork[v].request # new.request,
           new.step \in {"read", "locked"} => L!Decidable(new.op, new.seen.status) /\ request[new.request].status # "none",
           new.step = "encash" => cashing.status = "none",
           new.step \in {"raise", "encash"} /\ "overbooked" \notin leaveLapses' => L!Covered(new.copy, new.days)
    PROVE  LeaveInv'
<1>1. leaveWork'[u] = new /\ \A v \in Users \ {u} : leaveWork'[v] = leaveWork[v]
  BY DEF LeaveInv, LeaveTypes
<1>2. LeaveTypes'
  BY DEF LeaveInv, LeaveTypes
<1>3. \A v \in Users : LeaveWorkOK(v)'
  <2>1. \A v \in Users : leaveWork[v].step = "raise" => request[leaveWork[v].request].status = "none"
    BY DEF LeaveInv, LeaveWorkOK
  <2>2. \A v \in Users : leaveWork[v].step = "encash" => cashing.status = "none"
    BY DEF LeaveInv, LeaveWorkOK
  <2> QED BY <2>1, <2>2, LeaveOthers
<1>4. Fair' => BalanceOK'
  <2> SUFFICES ASSUME Fair' PROVE BalanceOK'
    OBVIOUS
  <2>1. BalanceOK
    BY StillFair DEF LeaveInv
  <2>2. Held' = Held
    BY <1>1 DEF Held
  <2>3. Waits' = Waits /\ Took' = Took
    BY <2>2 DEF Waits, Took
  <2>4. ASSUME NEW v \in Users, "overbooked" \notin leaveLapses', Raises(v)' \/ leaveWork'[v].step = "encash"
        PROVE  L!Covered(leaveWork'[v].copy, leaveWork'[v].days)
    <3>1. CASE v = u
      BY <1>1, <2>4, <3>1 DEF Raises
    <3>2. CASE v # u
      BY <1>1, <2>1, <2>4, <3>2 DEF Raises, BalanceOK
    <3> QED BY <3>1, <3>2
  <2>5. L!Available(balance)' = L!Available(balance)
    BY DEF L!Available
  <2>6. \A v \in Users : leaveWork'[v].step = "hold" =>
          request'[leaveWork'[v].request] = [status |-> "pending", days |-> leaveWork'[v].days]
    BY <1>1, <2>1 DEF BalanceOK
  <2> QED BY <2>1, <2>3, <2>4, <2>5, <2>6 DEF BalanceOK, L!Covered, L!Available
<1>5. L!AttendanceFollowsApproval' /\ L!LedgerIsTheBaseline'
  BY StillFair DEF LeaveInv
<1> QED BY <1>2, <1>3, <1>4, <1>5 DEF LeaveInv

LEMMA LeaveCount == ASSUME L!LeaveAssumption, LeaveInv, L!Count PROVE leaveOps' \in 0..MaxOps
BY DEF L!Count, LeaveInv, LeaveTypes, L!LeaveAssumption

LEMMA BeginRequestOK ==
    ASSUME L!LeaveAssumption, LeaveInv, NEW u \in Users, NEW q \in Leaves, NEW days \in LeaveDays, NEW portal \in BOOLEAN,
           L!BeginRequest(u, q, days, portal)
    PROVE  LeaveInv'
<1> DEFINE new == [step |-> "raise", request |-> q, days |-> days, copy |-> balance, direct |-> direct /\ ~portal]
<1>1. /\ L!Count /\ leaveWork[u].step = "idle" /\ request[q].status = "none"
      /\ \A v \in Users : ~(leaveWork[v].step = "raise" /\ leaveWork[v].request = q)
      /\ portal => L!Covered(balance, days)
      /\ leaveWork' = [leaveWork EXCEPT ![u] = new]
      /\ leaveLapses' = leaveLapses \cup L!Lapse(~portal, "overbooked")
      /\ UNCHANGED <<direct, request, attendance, balance, cashing, accrued, baseline, sources, today>>
  BY DEF L!BeginRequest, L!At, L!Goto
<1>2. new \in Raising /\ new.step = "raise" /\ new.request = q /\ new.copy = balance /\ new.days = days
  <2>1. days \in Nat /\ balance \in Balances
    BY DEF L!LeaveAssumption, LeaveInv, LeaveTypes
  <2> QED BY <2>1 DEF Raising
<1> HIDE DEF new
<1>3. "overbooked" \notin leaveLapses' => L!Covered(new.copy, new.days)
  BY <1>1, <1>2 DEF L!Lapse
<1>4. \A v \in Users \ {u} : Raises(v) => leaveWork[v].request # new.request
  <2> SUFFICES ASSUME NEW v \in Users \ {u}, leaveWork[v].step \in {"raise", "hold"}, leaveWork[v].request = q PROVE FALSE
    BY <1>2 DEF Raises
  <2>1. leaveWork[v].step = "hold"
    BY <1>1
  <2> QED BY <1>1, <2>1 DEF LeaveInv, LeaveWorkOK
<1>5. leaveOps' \in 0..MaxOps
  BY <1>1, LeaveCount
<1>6. new.step # "hold" /\ new.step # "encash" /\ new.step \notin {"read", "locked"} /\ leaveWork[u].step # "hold"
  BY <1>1, <1>2
<1>7. leaveLapses \subseteq leaveLapses'
  BY <1>1
<1> QED BY <1>1, <1>2, <1>3, <1>4, <1>5, <1>6, <1>7, LeaveBegins

LEMMA BeginDecideOK ==
    ASSUME L!LeaveAssumption, LeaveInv, NEW u \in Users, NEW q \in Leaves, NEW op \in {"approve", "reject", "cancel"},
           L!BeginDecide(u, op, q)
    PROVE  LeaveInv'
<1> DEFINE new == [step |-> "read", op |-> op, request |-> q, seen |-> request[q]]
<1>1. /\ L!Count /\ leaveWork[u].step = "idle" /\ L!Decidable(op, request[q].status)
      /\ leaveWork' = [leaveWork EXCEPT ![u] = new]
      /\ UNCHANGED <<direct, request, attendance, balance, cashing, accrued, baseline, sources, today, leaveLapses>>
  BY DEF L!BeginDecide, L!At, L!Goto
<1>2. new \in Judging /\ new.step = "read" /\ new.op = op /\ new.request = q /\ new.seen = request[q]
  BY DEF LeaveInv, LeaveTypes, Judging
<1>3. request[q].status # "none"
  BY <1>1 DEF L!Decidable
<1> HIDE DEF new
<1>4. leaveOps' \in 0..MaxOps
  BY <1>1, LeaveCount
<1>5. new.step # "hold" /\ new.step # "encash" /\ new.step # "raise" /\ leaveWork[u].step # "hold"
  BY <1>1, <1>2
<1> QED BY <1>1, <1>2, <1>3, <1>4, <1>5, LeaveBegins

LEMMA LockOK == ASSUME L!LeaveAssumption, LeaveInv, NEW u \in Users, L!Lock(u) PROVE LeaveInv'
<1> DEFINE w == leaveWork[u]
           new == [step |-> "locked", op |-> w.op, request |-> w.request, seen |-> w.seen, copy |-> balance]
<1>1. /\ w.step = "read" /\ leaveWork' = [leaveWork EXCEPT ![u] = new]
      /\ UNCHANGED <<direct, request, attendance, balance, cashing, accrued, baseline, sources, today, leaveOps, leaveLapses>>
  BY DEF L!Lock, L!At, L!Goto
<1>2. w \in Judging /\ LeaveWorkOK(u)
  BY <1>1, LeaveShape DEF LeaveInv
<1>3. new \in Locking /\ new.step = "locked" /\ new.op = w.op /\ new.request = w.request /\ new.seen = w.seen
  BY <1>2 DEF Judging, Locking, LeaveInv, LeaveTypes
<1>4. L!Decidable(w.op, w.seen.status) /\ request[w.request].status # "none"
  BY <1>1, <1>2 DEF LeaveWorkOK
<1> HIDE DEF new
<1>5. leaveOps' \in 0..MaxOps
  BY <1>1 DEF LeaveInv, LeaveTypes
<1>6. new.step # "hold" /\ new.step # "encash" /\ new.step # "raise" /\ w.step # "hold"
  BY <1>1, <1>3
<1> HIDE DEF w
<1>7. L!Decidable(new.op, new.seen.status) /\ request[new.request].status # "none"
  BY <1>3, <1>4
<1> QED BY <1>1, <1>3, <1>5, <1>6, <1>7, LeaveBegins DEF w

LEMMA BeginEncashOK ==
    ASSUME L!LeaveAssumption, LeaveInv, NEW u \in Users, NEW days \in LeaveDays, L!BeginEncash(u, days) PROVE LeaveInv'
<1> DEFINE new == [step |-> "encash", days |-> days, copy |-> balance]
<1>1. /\ L!Count /\ leaveWork[u].step = "idle" /\ cashing.status = "none" /\ L!Covered(balance, days)
      /\ \A v \in Users : leaveWork[v].step # "encash"
      /\ leaveWork' = [leaveWork EXCEPT ![u] = new]
      /\ UNCHANGED <<direct, request, attendance, balance, cashing, accrued, baseline, sources, today, leaveLapses>>
  BY DEF L!BeginEncash, L!At, L!Goto
<1>2. new \in Cashing /\ new.step = "encash" /\ new.days = days /\ new.copy = balance
  BY DEF LeaveInv, LeaveTypes, Cashing, L!LeaveAssumption
<1> HIDE DEF new
<1>3. leaveOps' \in 0..MaxOps
  BY <1>1, LeaveCount
<1>4. new.step # "hold" /\ new.step # "raise" /\ new.step \notin {"read", "locked"} /\ leaveWork[u].step # "hold"
  BY <1>1, <1>2
<1> QED BY <1>1, <1>2, <1>3, <1>4, LeaveBegins
\* A step of the accounts: requests stay, and the balance can only grow.
LEMMA AccountsOnly ==
    ASSUME LeaveInv, LeaveTypes', UNCHANGED <<request, attendance, leaveWork>>, leaveLapses \subseteq leaveLapses',
           balance'.taken = balance.taken, balance'.pending = balance.pending, balance'.accrued >= balance.accrued,
           cashing'.days = cashing.days, cashing'.status = "none" <=> cashing.status = "none", L!LedgerIsTheBaseline'
    PROVE  LeaveInv'
<1>1. \A v \in Users : LeaveWorkOK(v)'
  BY DEF LeaveInv, LeaveWorkOK, Raises
<1>2. Fair' => BalanceOK'
  <2> SUFFICES ASSUME Fair' PROVE BalanceOK'
    OBVIOUS
  <2>1. BalanceOK
    BY StillFair DEF LeaveInv
  <2>2. Waits' = Waits /\ Took' = Took
    BY DEF Waits, Took, Held
  <2>3. L!Available(balance) >= 0 => L!Available(balance') >= 0
    <3>1. balance \in Balances /\ balance' \in Balances
      BY DEF LeaveInv, LeaveTypes
    <3>2. /\ balance.accrued \in Int /\ balance.taken \in Int /\ balance.pending \in Int /\ balance'.accrued \in Int
      BY <3>1 DEF Balances
    <3> QED BY <3>2 DEF L!Available
  <2> QED BY <2>1, <2>2, <2>3 DEF BalanceOK, Raises, L!Covered, L!Available
<1>3. L!AttendanceFollowsApproval'
  BY StillFair DEF LeaveInv
<1> QED BY <1>1, <1>2, <1>3 DEF LeaveInv

LEMMA AccruedIsInt == ASSUME LeaveInv PROVE balance.accrued \in Int /\ balance.accrued >= balance.accrued
<1>1. balance.accrued \in Int
  BY DEF LeaveInv, LeaveTypes, Balances
<1> QED BY <1>1

LEMMA ThereAndBack == ASSUME NEW b \in Int, NEW t \in Int PROVE b + (t - b) = t
OBVIOUS

LEMMA AccrueOK == ASSUME L!LeaveAssumption, LeaveInv, L!Accrue PROVE LeaveInv'
<1>1. /\ L!Count /\ balance' = [balance EXCEPT !.accrued = L!Accrued(balance)]
      /\ UNCHANGED <<direct, request, attendance, cashing, accrued, baseline, sources, today, leaveWork, leaveLapses>>
  BY DEF L!Accrue
<1>2. L!Accrued(balance) \in 0..Ceiling /\ L!Accrued(balance) >= balance.accrued
  <2>1. balance.accrued \in 0..Ceiling /\ Ceiling \in Nat /\ Share \in 0..Ceiling
    BY DEF LeaveInv, LeaveTypes, Balances, L!LeaveAssumption
  <2> QED BY <2>1 DEF L!Accrued, L!Most
<1>3. /\ balance' \in Balances /\ balance'.taken = balance.taken /\ balance'.pending = balance.pending
      /\ balance'.accrued = L!Accrued(balance)
  BY <1>1, <1>2 DEF LeaveInv, LeaveTypes, Balances
<1>4. LeaveTypes'
  BY <1>1, <1>3, LeaveCount DEF LeaveInv, LeaveTypes
<1>5. L!LedgerIsTheBaseline'
  BY <1>1, StillFair DEF LeaveInv
<1> QED BY <1>1, <1>2, <1>3, <1>4, <1>5, AccountsOnly

LEMMA CancelEncashmentOK == ASSUME L!LeaveAssumption, LeaveInv, L!CancelEncashment PROVE LeaveInv'
<1>1. /\ L!Count /\ cashing.status = "pending" /\ cashing' = [cashing EXCEPT !.status = "cancelled"]
      /\ UNCHANGED <<direct, request, attendance, balance, accrued, baseline, sources, today, leaveWork, leaveLapses>>
  BY DEF L!CancelEncashment
<1>2. LeaveTypes' /\ cashing'.status = "cancelled" /\ cashing'.days = cashing.days
  BY <1>1, LeaveCount DEF LeaveInv, LeaveTypes
<1>3. L!LedgerIsTheBaseline'
  BY <1>1, StillFair DEF LeaveInv
<1>4. balance.accrued \in Int
  BY DEF LeaveInv, LeaveTypes, Balances
<1> QED BY <1>1, <1>2, <1>3, <1>4, AccountsOnly

LEMMA NextDayOK == ASSUME L!LeaveAssumption, LeaveInv, L!NextDay PROVE LeaveInv'
<1>1. /\ L!Count /\ today' = today + 1
      /\ UNCHANGED <<direct, request, attendance, balance, cashing, accrued, baseline, sources, leaveWork, leaveLapses>>
  BY DEF L!NextDay
<1>2. today' \in Nat \ {0} /\ sources' \subseteq 0..today'
  BY <1>1 DEF LeaveInv, LeaveTypes
<1>3. LeaveTypes'
  BY <1>1, <1>2, LeaveCount DEF LeaveInv, LeaveTypes
<1>4. L!LedgerIsTheBaseline'
  BY <1>1, StillFair DEF LeaveInv
<1>5. balance.accrued \in Int
  BY DEF LeaveInv, LeaveTypes, Balances
<1> QED BY <1>1, <1>3, <1>4, <1>5, AccountsOnly

LEMMA SettleOK == ASSUME L!LeaveAssumption, LeaveInv, L!Settle PROVE LeaveInv'
<1>1. /\ L!Count /\ cashing.status \in {"pending", "applied"} /\ cashing' = [cashing EXCEPT !.status = "applied"]
      /\ accrued' = (IF 0 \in sources THEN accrued ELSE accrued + (-cashing.days)) /\ sources' = sources \cup {0}
      /\ baseline' = baseline - cashing.days
      /\ leaveLapses' = leaveLapses \cup L!Lapse(0 \in sources, "settled twice")
      /\ UNCHANGED <<direct, request, attendance, balance, today, leaveWork>>
  BY DEF L!Settle, L!Posted, L!Settled, L!Settlement
<1>2. cashing.days \in Nat /\ accrued \in Int /\ baseline \in Int /\ today \in Nat
  BY DEF LeaveInv, LeaveTypes
<1>3. accrued' \in Int /\ baseline' \in Int /\ sources' \subseteq 0..today'
  <2>1. accrued + (-cashing.days) \in Int /\ baseline - cashing.days \in Int
    BY <1>2
  <2>2. sources \subseteq 0..today /\ 0 \in 0..today
    BY <1>2 DEF LeaveInv, LeaveTypes
  <2> QED BY <1>1, <1>2, <2>1, <2>2
<1>4. cashing'.status = "applied" /\ cashing'.days = cashing.days
      /\ cashing' \in [status : {"none", "pending", "applied", "cancelled"}, days : Nat]
  BY <1>1 DEF LeaveInv, LeaveTypes
<1>5. LeaveTypes'
  BY <1>1, <1>3, <1>4, LeaveCount DEF LeaveInv, LeaveTypes
<1>6. L!LedgerIsTheBaseline'
  <2> SUFFICES ASSUME leaveLapses' \cap {"settled twice", "same day"} = {} PROVE accrued' = baseline'
    BY DEF L!LedgerIsTheBaseline
  <2>1. 0 \notin sources /\ accrued = baseline
    BY <1>1 DEF L!Lapse, LeaveInv, L!LedgerIsTheBaseline
  <2>2. accrued' = accrued + (-cashing.days) /\ baseline' = baseline - cashing.days
    BY <1>1, <2>1
  <2> QED BY <1>2, <2>1, <2>2
<1>7. leaveLapses \subseteq leaveLapses'
  BY <1>1
<1>8. balance' = balance /\ request' = request /\ attendance' = attendance /\ leaveWork' = leaveWork
  BY <1>1
<1>9. balance'.accrued >= balance.accrued
  BY <1>8, AccruedIsInt
<1>10. cashing'.status = "none" <=> cashing.status = "none"
  BY <1>1, <1>4
<1> QED BY <1>4, <1>5, <1>6, <1>7, <1>8, <1>9, <1>10, AccountsOnly

LEMMA TrueUpOK == ASSUME L!LeaveAssumption, LeaveInv, L!TrueUp PROVE LeaveInv'
<1> DEFINE target == L!Most(0, L!Available(balance))
<1>1. /\ L!Count
      /\ accrued' = (IF today \in sources THEN accrued ELSE accrued + (target - baseline)) /\ sources' = sources \cup {today}
      /\ baseline' = target
      /\ leaveLapses' = leaveLapses \cup L!Lapse(today \in sources, "same day")
      /\ UNCHANGED <<direct, request, attendance, balance, cashing, today, leaveWork>>
  BY DEF L!TrueUp, L!Posted
<1>2. accrued \in Int /\ baseline \in Int /\ today \in Nat \ {0} /\ balance \in Balances
  BY DEF LeaveInv, LeaveTypes
<1>3. target \in Int
  <2>1. balance.accrued \in Int /\ balance.taken \in Int /\ balance.pending \in Int
    BY <1>2 DEF Balances
  <2> QED BY <2>1 DEF L!Available, L!Most
<1> HIDE DEF target
<1>4. accrued' \in Int /\ baseline' \in Int /\ sources' \subseteq 0..today'
  <2>1. accrued + (target - baseline) \in Int
    BY <1>2, <1>3
  <2>2. sources \subseteq 0..today /\ today \in 0..today
    BY <1>2 DEF LeaveInv, LeaveTypes
  <2> QED BY <1>1, <1>2, <1>3, <2>1, <2>2
<1>5. LeaveTypes'
  BY <1>1, <1>4, LeaveCount DEF LeaveInv, LeaveTypes
<1>6. L!LedgerIsTheBaseline'
  <2> SUFFICES ASSUME leaveLapses' \cap {"settled twice", "same day"} = {} PROVE accrued' = baseline'
    BY DEF L!LedgerIsTheBaseline
  <2>1. today \notin sources /\ accrued = baseline
    BY <1>1 DEF L!Lapse, LeaveInv, L!LedgerIsTheBaseline
  <2>2. accrued' = accrued + (target - baseline) /\ baseline' = target
    BY <1>1, <2>1
  <2>3. accrued + (target - baseline) = target
    <3>2. baseline \in Int /\ target \in Int
      BY <1>2, <1>3
    <3>3. baseline + (target - baseline) = target
      BY <3>2, ThereAndBack
    <3> QED BY <2>1, <3>3
  <2> QED BY <2>2, <2>3
<1>7. leaveLapses \subseteq leaveLapses'
  BY <1>1
<1>8. balance' = balance /\ request' = request /\ attendance' = attendance /\ leaveWork' = leaveWork
      /\ cashing' = cashing
  BY <1>1
<1>9. balance'.accrued >= balance.accrued
  BY <1>8, AccruedIsInt
<1> QED BY <1>5, <1>6, <1>7, <1>8, <1>9, AccountsOnly

LEMMA PatchOK ==
    ASSUME L!LeaveAssumption, LeaveInv, NEW q \in Leaves, NEW status \in {"cancelled", "pending"}, L!Patch(q, status)
    PROVE  LeaveInv'
<1>1. /\ L!Count /\ request[q].status \notin {"none", status} /\ request' = [request EXCEPT ![q].status = status]
      /\ leaveLapses' = leaveLapses \cup {"patched"}
      /\ UNCHANGED <<direct, attendance, balance, cashing, accrued, baseline, sources, today, leaveWork>>
  BY DEF L!Patch
<1>2. /\ request' \in [Leaves -> LeaveRow] /\ request'[q].status = status
      /\ \A p \in Leaves \ {q} : request'[p] = request[p]
  BY <1>1 DEF LeaveInv, LeaveTypes, LeaveRow
<1>3. LeaveTypes'
  BY <1>1, <1>2, LeaveCount DEF LeaveInv, LeaveTypes
<1>4. ASSUME NEW v \in Users PROVE LeaveWorkOK(v)'
  <2>1. LeaveWorkOK(v)
    BY DEF LeaveInv
  <2>2. /\ leaveWork[v].step \in {"raise", "hold", "read", "locked"} => leaveWork[v].request \in Leaves
    BY LeaveShape DEF LeaveInv, Raises, Raising, Judging, Locking
  <2>3. \A p \in Leaves : request'[p].status = "none" <=> request[p].status = "none"
    BY <1>1, <1>2
  <2>4. leaveWork' = leaveWork /\ cashing' = cashing
    BY <1>1
  <2> QED BY <2>1, <2>2, <2>3, <2>4 DEF LeaveWorkOK, Raises
<1>5. ~Fair' /\ L!AttendanceFollowsApproval'
  BY <1>1 DEF Fair, L!AttendanceFollowsApproval
<1>6. L!LedgerIsTheBaseline'
  BY <1>1, StillFair DEF LeaveInv
<1> QED BY <1>1, <1>3, <1>4, <1>5, <1>6 DEF LeaveInv

LEMMA SaveRequestOK == ASSUME L!LeaveAssumption, LeaveInv, NEW u \in Users, L!SaveRequest(u) PROVE LeaveInv'
<1>0. leaveWork[u] \in Raising /\ leaveWork[u].step = "raise"
  BY LeaveShape DEF LeaveInv, Raises, L!SaveRequest, L!At
<1>1. PICK w \in Raising : w = leaveWork[u]
  BY <1>0
<1>2. PICK q \in Leaves : q = w.request
  BY DEF Raising
<1> DEFINE row == [status |-> IF w.direct THEN "approved" ELSE "pending", days |-> w.days]
           new == IF w.direct THEN L!Idle ELSE [w EXCEPT !.step = "hold"]
<1>3. /\ request' = [request EXCEPT ![q] = row] /\ leaveWork' = [leaveWork EXCEPT ![u] = new]
      /\ leaveLapses' = leaveLapses \cup L!Lapse(w.direct, "approved unseen")
      /\ UNCHANGED <<direct, attendance, balance, cashing, accrued, baseline, sources, today, leaveOps>>
  BY <1>1, <1>2 DEF L!SaveRequest, L!Finished, L!Goto
<1>4. row \in LeaveRow /\ row.status # "none" /\ row.status # "rejected" /\ (~w.direct => row = [status |-> "pending", days |-> w.days])
  BY DEF LeaveRow, Raising
<1>5. /\ w.direct => new = L!Idle
      /\ ~w.direct => /\ new \in Raising /\ new.step = "hold" /\ new.request = q
                      /\ new.days = w.days /\ new.copy = w.copy
  BY <1>2 DEF Raising
<1>6. w.direct \in BOOLEAN /\ w.days \in Nat /\ request[q].status = "none"
  <2>1. LeaveWorkOK(u)
    BY DEF LeaveInv
  <2> QED BY <1>0, <1>1, <1>2, <2>1 DEF Raising, LeaveWorkOK
<1> HIDE DEF row, new
<1>7. /\ request'[q] = row /\ (\A p \in Leaves \ {q} : request'[p] = request[p]) /\ request' \in [Leaves -> LeaveRow]
      /\ leaveWork'[u] = new /\ (\A v \in Users \ {u} : leaveWork'[v] = leaveWork[v])
      /\ leaveWork' \in [Users -> {L!Idle} \cup Raising \cup Judging \cup Locking \cup Cashing]
  BY <1>3, <1>4, <1>5, <1>6 DEF LeaveInv, LeaveTypes
<1>8. LeaveTypes'
  BY <1>3, <1>7 DEF LeaveInv, LeaveTypes
<1>9. \A v \in Users \ {u} : Raises(v) => leaveWork[v].request # q
  <2>1. LeaveWorkOK(u) /\ Raises(u)
    BY <1>0 DEF LeaveInv, Raises
  <2> QED BY <1>1, <1>2, <2>1 DEF LeaveWorkOK
<1>10. ASSUME NEW v \in Users PROVE LeaveWorkOK(v)'
  <2>1. \A p \in Leaves : request[p].status # "none" => request'[p].status # "none"
    BY <1>4, <1>7
  <2>2. \A t \in Users \ {u} : leaveWork[t].step = "raise" => request'[leaveWork[t].request].status = "none"
    <3> SUFFICES ASSUME NEW t \in Users \ {u}, leaveWork[t].step = "raise" PROVE request'[leaveWork[t].request].status = "none"
      OBVIOUS
    <3>1. leaveWork[t].request # q /\ leaveWork[t].request \in Leaves /\ LeaveWorkOK(t)
      BY <1>9, LeaveShape DEF LeaveInv, Raises, Raising
    <3> QED BY <1>7, <3>1 DEF LeaveWorkOK
  <2>3. \A t \in Users \ {u} : leaveWork[t].step = "encash" => cashing'.status = "none"
    BY <1>3 DEF LeaveInv, LeaveWorkOK
  <2>4. new.step = "idle" \/ (new.step = "hold" /\ new.request = q)
    BY <1>5, <1>6, IdleStep
  <2>5. request'[q].status # "none"
    BY <1>4, <1>7
  <2>6. new.step # "raise" /\ new.step # "encash" /\ new.step \notin {"read", "locked"}
    BY <2>4
  <2>7. new.step = "hold" => new.request = q
    BY <2>4
  <2>8. \A t \in Users \ {u} : leaveWork[t].step = "encash" => cashing'.status = "none" /\ new.step # "encash"
    BY <2>3, <2>6
  <2>9. new.step \in {"raise", "hold"} => \A t \in Users \ {u} : Raises(t) => leaveWork[t].request # new.request
    BY <1>9, <2>6, <2>7
  <2>10. new.step = "hold" => request'[new.request].status # "none"
    BY <2>5, <2>7
  <2>11. leaveWork' = [leaveWork EXCEPT ![u] = new]
    BY <1>3
  <2> QED BY <2>1, <2>2, <2>6, <2>8, <2>9, <2>10, <2>11, LeaveOthers
<1>11. leaveLapses \subseteq leaveLapses' /\ (w.direct => "approved unseen" \in leaveLapses')
  BY <1>3 DEF L!Lapse
<1>12. Fair' => BalanceOK'
  <2> SUFFICES ASSUME Fair' PROVE BalanceOK'
    OBVIOUS
  <2>1. BalanceOK /\ ~w.direct
    BY <1>11, StillFair DEF LeaveInv, Fair
  <2>2. row = [status |-> "pending", days |-> w.days] /\ new.step = "hold" /\ new.request = q
        /\ new.days = w.days /\ new.copy = w.copy
    BY <1>4, <1>5, <2>1
  <2>3. Held' = Held \cup {q}
    <3>1. \A t \in Users \ {u} : leaveWork'[t] = leaveWork[t]
      BY <1>7
    <3>2. leaveWork'[u].step = "hold" /\ leaveWork'[u].request = q /\ leaveWork[u].step # "hold"
      BY <1>0, <1>7, <2>2
    <3> QED BY <3>1, <3>2 DEF Held
  <2>4. \A p \in Leaves : Waits'[p] = Waits[p] /\ Took'[p] = Took[p]
    <3>1. request[q].status = "none" /\ request'[q].status = "pending"
      BY <1>6, <1>7, <2>2
    <3> QED BY <1>7, <2>3, <3>1 DEF Waits, Took
  <2>5. Sum(Waits', Leaves) = Sum(Waits, Leaves) /\ Sum(Took', Leaves) = Sum(Took, Leaves)
    <3>1. Waits' = Waits /\ Took' = Took
      <4>1. DOMAIN Waits = Leaves /\ DOMAIN Waits' = Leaves /\ DOMAIN Took = Leaves /\ DOMAIN Took' = Leaves
        BY DEF Waits, Took
      <4>2. Waits = [p \in Leaves |-> Waits[p]] /\ Waits' = [p \in Leaves |-> Waits'[p]]
            /\ Took = [p \in Leaves |-> Took[p]] /\ Took' = [p \in Leaves |-> Took'[p]]
        BY DEF Waits, Took
      <4> QED BY <2>4, <4>2
    <3> QED BY <3>1
  <2>6. ASSUME NEW v \in Users, leaveWork'[v].step = "hold"
        PROVE  request'[leaveWork'[v].request] = [status |-> "pending", days |-> leaveWork'[v].days]
    <3>1. CASE v = u
      BY <1>7, <2>2, <3>1
    <3>2. CASE v # u
      <4>1. leaveWork'[v] = leaveWork[v] /\ leaveWork[v].request # q /\ leaveWork[v].request \in Leaves
        BY <1>7, <1>9, <2>6, <3>2, LeaveShape DEF LeaveInv, Raises, Raising
      <4> QED BY <1>7, <2>1, <2>6, <4>1 DEF BalanceOK
    <3> QED BY <3>1, <3>2
  <2>7. ASSUME NEW v \in Users, "overbooked" \notin leaveLapses', Raises(v)' \/ leaveWork'[v].step = "encash"
        PROVE  L!Covered(leaveWork'[v].copy, leaveWork'[v].days)
    <3>1. CASE v = u
      <4>1. L!Covered(w.copy, w.days)
        BY <1>0, <1>1, <1>11, <2>1, <2>7 DEF BalanceOK, Raises
      <4> QED BY <1>7, <2>2, <3>1, <4>1
    <3>2. CASE v # u
      BY <1>7, <1>11, <2>1, <2>7, <3>2 DEF BalanceOK, Raises
    <3> QED BY <3>1, <3>2
  <2>8. balance' = balance /\ cashing' = cashing
    BY <1>3
  <2> QED BY <1>11, <2>1, <2>5, <2>6, <2>7, <2>8 DEF BalanceOK, L!Covered, L!Available
<1>13. L!AttendanceFollowsApproval'
  <2> SUFFICES ASSUME leaveLapses' \cap {"decided twice", "patched", "approved unseen"} = {}
               PROVE  attendance' = {p \in Leaves : request'[p].status = "approved"}
    BY DEF L!AttendanceFollowsApproval
  <2>1. attendance = {p \in Leaves : request[p].status = "approved"} /\ ~w.direct
    BY <1>11 DEF LeaveInv, L!AttendanceFollowsApproval
  <2>2. request[q].status # "approved" /\ request'[q].status # "approved"
    <3>1. row = [status |-> "pending", days |-> w.days]
      BY <1>4, <2>1
    <3>2. row.status = "pending"
      BY <3>1
    <3> QED BY <1>6, <1>7, <3>2
  <2> QED BY <1>3, <1>7, <2>1, <2>2
<1>14. L!LedgerIsTheBaseline'
  BY <1>3, <1>11, StillFair DEF LeaveInv
<1> QED BY <1>3, <1>8, <1>10, <1>12, <1>13, <1>14 DEF LeaveInv
\* A user is done with requests and encashments: the others are where they were.
LEMMA LeaveDone ==
    ASSUME LeaveInv, NEW u \in Users, leaveWork' = [leaveWork EXCEPT ![u] = L!Idle],
           \A q \in Leaves : request[q].status # "none" <=> request'[q].status # "none",
           cashing' = cashing \/ leaveWork[u].step = "encash"
    PROVE  /\ \A v \in Users : LeaveWorkOK(v)'
           /\ leaveWork'[u].step = "idle" /\ \A v \in Users \ {u} : leaveWork'[v] = leaveWork[v]
           /\ leaveWork' \in [Users -> {L!Idle} \cup Raising \cup Judging \cup Locking \cup Cashing]
<1>1. /\ leaveWork'[u] = L!Idle /\ \A v \in Users \ {u} : leaveWork'[v] = leaveWork[v]
      /\ leaveWork' \in [Users -> {L!Idle} \cup Raising \cup Judging \cup Locking \cup Cashing]
  BY DEF LeaveInv, LeaveTypes
<1>2. L!Idle.step \notin {"raise", "hold", "read", "locked", "encash"}
  BY IdleStep
<1>3. \A v \in Users \ {u} : leaveWork[v].step = "raise" => request'[leaveWork[v].request].status = "none"
  <2> SUFFICES ASSUME NEW v \in Users \ {u}, leaveWork[v].step = "raise" PROVE request'[leaveWork[v].request].status = "none"
    OBVIOUS
  <2>1. leaveWork[v].request \in Leaves /\ LeaveWorkOK(v)
    BY LeaveShape DEF LeaveInv, Raises, Raising
  <2> QED BY <2>1 DEF LeaveWorkOK
<1>4. \A v \in Users \ {u} : leaveWork[v].step = "encash" => cashing'.status = "none"
  <2> SUFFICES ASSUME NEW v \in Users \ {u}, leaveWork[v].step = "encash" PROVE cashing'.status = "none"
    OBVIOUS
  <2>1. LeaveWorkOK(v)
    BY DEF LeaveInv
  <2>2. cashing.status = "none" /\ leaveWork[u].step # "encash"
    BY <2>1 DEF LeaveWorkOK
  <2> QED BY <2>2
<1>5. \A v \in Users \ {u} : leaveWork[v].step = "encash" => cashing'.status = "none" /\ L!Idle.step # "encash"
  BY <1>2, <1>4
<1>6. L!Idle.step # "raise" /\ L!Idle.step # "hold" /\ L!Idle.step # "encash" /\ L!Idle.step \notin {"raise", "hold"}
      /\ L!Idle.step \notin {"read", "locked"}
  BY <1>2
<1>7. \A q \in Leaves : request[q].status # "none" => request'[q].status # "none"
  OBVIOUS
<1>8. \A v \in Users : LeaveWorkOK(v)'
  BY <1>3, <1>5, <1>6, <1>7, LeaveOthers
<1> QED BY <1>1, <1>8, IdleStep

\* What a user checked of his copy stays checked.
LEMMA CoveredStill ==
    ASSUME BalanceOK, NEW u \in Users, leaveWork'[u].step = "idle", \A v \in Users \ {u} : leaveWork'[v] = leaveWork[v],
           leaveLapses \subseteq leaveLapses', "overbooked" \notin leaveLapses'
    PROVE  \A v \in Users : Raises(v)' \/ leaveWork'[v].step = "encash" => L!Covered(leaveWork'[v].copy, leaveWork'[v].days)
<1> SUFFICES ASSUME NEW v \in Users, Raises(v)' \/ leaveWork'[v].step = "encash"
             PROVE  L!Covered(leaveWork'[v].copy, leaveWork'[v].days)
  OBVIOUS
<1>1. v # u
  BY DEF Raises
<1> QED BY <1>1 DEF BalanceOK, Raises

LEMMA HoldOK == ASSUME L!LeaveAssumption, LeaveInv, NEW u \in Users, L!Hold(u) PROVE LeaveInv'
<1>0. leaveWork[u] \in Raising /\ leaveWork[u].step = "hold"
  BY LeaveShape DEF LeaveInv, Raises, L!Hold, L!At
<1>1. PICK w \in Raising : w = leaveWork[u]
  BY <1>0
<1>2. PICK q \in Leaves : q = w.request
  BY DEF Raising
<1>3. /\ balance' = [balance EXCEPT !.pending = w.copy.pending + w.days] /\ leaveWork' = [leaveWork EXCEPT ![u] = L!Idle]
      /\ leaveLapses' = leaveLapses \cup L!Lapse(balance # w.copy, "raced")
      /\ UNCHANGED <<direct, request, attendance, cashing, accrued, baseline, sources, today, leaveOps>>
  BY <1>1 DEF L!Hold, L!Overwrites, L!Finished, L!Goto
<1>4. w.copy \in Balances /\ w.days \in Nat /\ balance \in Balances
  BY DEF Raising, LeaveInv, LeaveTypes
<1>5. w.copy.pending + w.days \in Nat
  BY <1>4 DEF Balances
<1>6. balance' \in Balances /\ balance'.accrued = balance.accrued /\ balance'.taken = balance.taken
      /\ balance'.pending = w.copy.pending + w.days
  BY <1>3, <1>4, <1>5 DEF Balances
<1>7. /\ \A v \in Users : LeaveWorkOK(v)'
      /\ leaveWork'[u].step = "idle" /\ \A v \in Users \ {u} : leaveWork'[v] = leaveWork[v]
      /\ leaveWork' \in [Users -> {L!Idle} \cup Raising \cup Judging \cup Locking \cup Cashing]
  BY <1>3, LeaveDone
<1>8. LeaveTypes'
  BY <1>3, <1>6, <1>7 DEF LeaveInv, LeaveTypes
<1>9. leaveLapses \subseteq leaveLapses' /\ (balance # w.copy => "raced" \in leaveLapses')
  BY <1>3 DEF L!Lapse
<1>10. Fair' => BalanceOK'
  <2> SUFFICES ASSUME Fair' PROVE BalanceOK'
    OBVIOUS
  <2>1. BalanceOK /\ w.copy = balance
    BY <1>9, StillFair DEF LeaveInv, Fair
  <2>2. request[q] = [status |-> "pending", days |-> w.days] /\ request' = request
    BY <1>0, <1>1, <1>2, <1>3, <2>1 DEF BalanceOK
  <2>3. q \in Held /\ Held' = Held \ {q}
    <3>1. ASSUME NEW v \in Users \ {u}, leaveWork[v].step = "hold" PROVE leaveWork[v].request # q
      BY <1>0, <1>1, <1>2, <3>1 DEF LeaveInv, LeaveWorkOK, Raises
    <3>2. q \in Held
      BY <1>0, <1>1, <1>2 DEF Held
    <3> QED BY <1>0, <1>1, <1>2, <1>7, <3>1, <3>2 DEF Held
  <2>4. /\ \A p \in Leaves \ {q} : Waits'[p] = Waits[p]
        /\ Waits[q] = 0 /\ Waits'[q] = w.days /\ Took' = Took
    BY <2>2, <2>3 DEF Waits, Took
  <2>5. Sum(Waits', Leaves) = Sum(Waits, Leaves) + w.days
    <3>1. \A p \in Leaves : Waits[p] \in Int /\ Waits'[p] \in Int
      BY <1>4, <2>4, WaitsAndTook DEF LeaveInv
    <3>2. Sum(Waits', Leaves) = Sum(Waits, Leaves) - Waits[q] + Waits'[q]
      BY <2>4, <3>1, LeaveFinite, SumChange
    <3>3. Sum(Waits, Leaves) \in Int
      BY <3>1, LeaveFinite, SumRemove
    <3> QED BY <1>4, <2>4, <3>2, <3>3
  <2>6. balance'.pending = Sum(Waits', Leaves) /\ balance'.taken = Sum(Took', Leaves) + cashing'.days
    BY <1>3, <1>6, <2>1, <2>4, <2>5 DEF BalanceOK
  <2>7. ASSUME NEW v \in Users, leaveWork'[v].step = "hold"
        PROVE  request'[leaveWork'[v].request] = [status |-> "pending", days |-> leaveWork'[v].days]
    BY <1>7, <2>1, <2>2, <2>7 DEF BalanceOK
  <2>8. "overbooked" \notin leaveLapses' => L!Available(balance') >= 0
    <3> SUFFICES ASSUME "overbooked" \notin leaveLapses' PROVE L!Available(balance') >= 0
      OBVIOUS
    <3>1. L!Covered(balance, w.days)
      BY <1>0, <1>1, <1>9, <2>1 DEF BalanceOK, Raises
    <3>2. balance.accrued \in Int /\ balance.taken \in Int /\ balance.pending \in Int
      BY <1>4 DEF Balances
    <3> QED BY <1>4, <1>6, <2>1, <3>1, <3>2 DEF L!Covered, L!Available
  <2>9. "overbooked" \notin leaveLapses' =>
          \A v \in Users : Raises(v)' \/ leaveWork'[v].step = "encash" => L!Covered(leaveWork'[v].copy, leaveWork'[v].days)
    BY <1>7, <1>9, <2>1, CoveredStill
  <2> QED BY <2>6, <2>7, <2>8, <2>9 DEF BalanceOK, L!Covered, L!Available
<1>11. L!AttendanceFollowsApproval' /\ L!LedgerIsTheBaseline'
  BY <1>3, <1>9, StillFair DEF LeaveInv
<1> QED BY <1>3, <1>7, <1>8, <1>10, <1>11 DEF LeaveInv

LEMMA EncashOK == ASSUME L!LeaveAssumption, LeaveInv, NEW u \in Users, L!Encash(u) PROVE LeaveInv'
<1>0. leaveWork[u] \in Cashing /\ leaveWork[u].step = "encash"
  BY LeaveShape DEF LeaveInv, L!Encash, L!At
<1>1. PICK w \in Cashing : w = leaveWork[u]
  BY <1>0
<1>2. /\ balance' = [balance EXCEPT !.taken = w.copy.taken + w.days] /\ leaveWork' = [leaveWork EXCEPT ![u] = L!Idle]
      /\ cashing' = [status |-> "pending", days |-> w.days]
      /\ leaveLapses' = leaveLapses \cup L!Lapse(balance # w.copy, "raced")
      /\ UNCHANGED <<direct, request, attendance, accrued, baseline, sources, today, leaveOps>>
  BY <1>1 DEF L!Encash, L!Overwrites, L!Finished, L!Goto
<1>3. w.copy \in Balances /\ w.days \in Nat /\ balance \in Balances
  BY DEF Cashing, LeaveInv, LeaveTypes
<1>4. w.copy.taken + w.days \in Nat
  BY <1>3 DEF Balances
<1>5. balance' \in Balances /\ balance'.accrued = balance.accrued /\ balance'.pending = balance.pending
      /\ balance'.taken = w.copy.taken + w.days
  BY <1>2, <1>3, <1>4 DEF Balances
<1>6. /\ \A v \in Users : LeaveWorkOK(v)'
      /\ leaveWork'[u].step = "idle" /\ \A v \in Users \ {u} : leaveWork'[v] = leaveWork[v]
      /\ leaveWork' \in [Users -> {L!Idle} \cup Raising \cup Judging \cup Locking \cup Cashing]
  BY <1>0, <1>2, LeaveDone
<1>7. cashing' \in [status : {"none", "pending", "applied", "cancelled"}, days : Nat] /\ cashing'.status = "pending"
      /\ cashing'.days = w.days
  BY <1>2, <1>3
<1>8. LeaveTypes'
  BY <1>2, <1>5, <1>6, <1>7 DEF LeaveInv, LeaveTypes
<1>9. leaveLapses \subseteq leaveLapses' /\ (balance # w.copy => "raced" \in leaveLapses')
  BY <1>2 DEF L!Lapse
<1>10. Fair' => BalanceOK'
  <2> SUFFICES ASSUME Fair' PROVE BalanceOK'
    OBVIOUS
  <2>1. BalanceOK /\ w.copy = balance
    BY <1>9, StillFair DEF LeaveInv, Fair
  <2>2. cashing.days = 0
    BY <1>0 DEF LeaveInv, LeaveWorkOK
  <2>3. Held' = Held
    <3>1. leaveWork[u].step # "hold" /\ leaveWork'[u].step # "hold"
      BY <1>0, <1>6
    <3> QED BY <1>6, <3>1 DEF Held
  <2>4. Waits' = Waits /\ Took' = Took
    BY <1>2, <2>3 DEF Waits, Took
  <2>5. balance'.taken = Sum(Took', Leaves) + cashing'.days
    <3>1. Sum(Took, Leaves) \in Int
      BY LeaveFinite, WaitsAndTook, SumNat DEF LeaveInv
    <3>2. balance.taken = Sum(Took, Leaves) + cashing.days
      BY <2>1 DEF BalanceOK
    <3>3. balance'.taken = balance.taken + w.days
      BY <1>5, <2>1
    <3> QED BY <1>3, <1>7, <2>2, <2>4, <3>1, <3>2, <3>3
  <2>6. balance'.pending = Sum(Waits', Leaves)
    BY <1>5, <2>1, <2>4 DEF BalanceOK
  <2>7. ASSUME NEW v \in Users, leaveWork'[v].step = "hold"
        PROVE  request'[leaveWork'[v].request] = [status |-> "pending", days |-> leaveWork'[v].days]
    BY <1>2, <1>6, <2>1, <2>7 DEF BalanceOK
  <2>8. "overbooked" \notin leaveLapses' => L!Available(balance') >= 0
    <3> SUFFICES ASSUME "overbooked" \notin leaveLapses' PROVE L!Available(balance') >= 0
      OBVIOUS
    <3>1. L!Covered(balance, w.days)
      BY <1>0, <1>1, <1>9, <2>1 DEF BalanceOK
    <3>2. balance.accrued \in Int /\ balance.taken \in Int /\ balance.pending \in Int
      BY <1>3 DEF Balances
    <3> QED BY <1>3, <1>5, <2>1, <3>1, <3>2 DEF L!Covered, L!Available
  <2>9. "overbooked" \notin leaveLapses' =>
          \A v \in Users : Raises(v)' \/ leaveWork'[v].step = "encash" => L!Covered(leaveWork'[v].copy, leaveWork'[v].days)
    BY <1>6, <1>9, <2>1, CoveredStill
  <2> QED BY <2>5, <2>6, <2>7, <2>8, <2>9 DEF BalanceOK, L!Covered, L!Available
<1>11. L!AttendanceFollowsApproval' /\ L!LedgerIsTheBaseline'
  BY <1>2, <1>9, StillFair DEF LeaveInv
<1>12. cashing'.status = "none" => cashing'.days = 0
  BY <1>7
<1> QED BY <1>6, <1>8, <1>10, <1>11, <1>12 DEF LeaveInv

\* What a decision writes, by the status it found.
LEMMA DecisionWrites ==
    ASSUME NEW op \in {"approve", "reject", "cancel"}, NEW seen \in LeaveRow, NEW copy \in Balances, balance \in Balances,
           L!Decidable(op, seen.status)
    PROVE  /\ L!Result(op) \in {"approved", "rejected", "cancelled"} /\ L!Moved(op, seen, copy) \in Balances
           /\ copy = balance =>
                 /\ L!Moved(op, seen, copy).accrued = balance.accrued
                 /\ seen.status = "pending" =>
                       /\ L!Moved(op, seen, copy).pending = L!Released(balance, seen.days)
                       /\ L!Moved(op, seen, copy).taken = balance.taken + (IF op = "approve" THEN seen.days ELSE 0)
                 /\ seen.status # "pending" =>
                       /\ op = "cancel" /\ seen.status = "approved"
                       /\ L!Moved(op, seen, copy).pending = balance.pending
                       /\ L!Moved(op, seen, copy).taken = L!Most(0, balance.taken - seen.days)
           /\ op = "approve" => seen.status = "pending"
<1>1. L!Result(op) \in {"approved", "rejected", "cancelled"}
  BY DEF L!Result
<1>2. /\ op # "cancel" => seen.status = "pending"
      /\ op = "cancel" => seen.status \in {"pending", "approved"}
  BY DEF L!Decidable
<1>3. /\ seen.days \in Nat /\ copy.taken \in Nat /\ copy.pending \in Nat /\ balance.taken \in Nat /\ balance.pending \in Nat
      /\ balance.accrued \in 0..Ceiling
  BY DEF LeaveRow, Balances
<1>4. /\ copy.taken + seen.days \in Nat /\ L!Released(copy, seen.days) \in Nat /\ L!Most(0, copy.taken - seen.days) \in Nat
      /\ balance.taken + 0 = balance.taken
  BY <1>3 DEF L!Released, L!Most
<1>5. CASE op = "approve"
  <2>1. L!Moved(op, seen, copy) =
          [balance EXCEPT !.taken = copy.taken + seen.days, !.pending = L!Released(copy, seen.days)]
    BY <1>5 DEF L!Moved
  <2> QED BY <1>1, <1>2, <1>4, <1>5, <2>1 DEF Balances
<1>6. CASE op = "reject"
  <2>1. L!Moved(op, seen, copy) = [balance EXCEPT !.pending = L!Released(copy, seen.days)]
    BY <1>6 DEF L!Moved
  <2> QED BY <1>1, <1>2, <1>4, <1>6, <2>1 DEF Balances
<1>7. CASE op = "cancel" /\ seen.status = "approved"
  <2>1. L!Moved(op, seen, copy) =
          [balance EXCEPT !.taken = L!Most(0, copy.taken - seen.days), !.pending = copy.pending]
    BY <1>7 DEF L!Moved
  <2> QED BY <1>1, <1>3, <1>4, <1>7, <2>1 DEF Balances
<1>8. CASE op = "cancel" /\ seen.status # "approved"
  <2>1. L!Moved(op, seen, copy) =
          [balance EXCEPT !.pending = L!Released(copy, seen.days), !.taken = copy.taken]
    BY <1>8 DEF L!Moved
  <2> QED BY <1>1, <1>2, <1>3, <1>4, <1>8, <2>1 DEF Balances
<1> QED BY <1>5, <1>6, <1>7, <1>8

LEMMA LessAndMore == ASSUME NEW a \in Nat, NEW d \in Nat, d <= a PROVE L!Most(0, a - d) = a - d
BY DEF L!Most

LEMMA TakenFigures ==
    ASSUME NEW t \in Nat, NEW s \in Int, NEW e \in Nat, NEW c \in Nat, NEW before \in Nat, NEW after \in Nat,
           t = s + c, e = t - before + after
    PROVE  e = (s - before + after) + c
OBVIOUS

LEMMA DecideOK == ASSUME L!LeaveAssumption, LeaveInv, NEW u \in Users, L!Decide(u) PROVE LeaveInv'
<1>0. leaveWork[u] \in Locking /\ leaveWork[u].step = "locked" /\ LeaveWorkOK(u)
  BY LeaveShape DEF LeaveInv, L!Decide, L!At
<1>1. PICK w \in Locking : w = leaveWork[u]
  BY <1>0
<1>2. PICK q \in Leaves : q = w.request
  BY DEF Locking
<1>3. /\ request' = [request EXCEPT ![q].status = L!Result(w.op)]
      /\ attendance' = L!Attended(w.op, w.seen, q)
      /\ balance' = L!Moved(w.op, w.seen, w.copy)
      /\ leaveLapses' = leaveLapses \cup L!Overwrites(w.copy) \cup L!Lapse(request[q] # w.seen, "decided twice")
                \cup L!Lapse(\E v \in Users : L!At(v, "hold") /\ leaveWork[v].request = q, "raced")
      /\ leaveWork' = [leaveWork EXCEPT ![u] = L!Idle]
      /\ UNCHANGED <<direct, cashing, accrued, baseline, sources, today, leaveOps>>
  BY <1>1, <1>2 DEF L!Decide, L!Finished, L!Goto
<1>4. w.op \in {"approve", "reject", "cancel"} /\ w.seen \in LeaveRow /\ w.copy \in Balances /\ balance \in Balances
      /\ L!Decidable(w.op, w.seen.status) /\ request[q].status # "none"
  BY <1>0, <1>1, <1>2 DEF Locking, LeaveInv, LeaveTypes, LeaveWorkOK
<1>5. PICK op \in {"approve", "reject", "cancel"} : op = w.op
  BY <1>4
<1>6. PICK seen \in LeaveRow : seen = w.seen
  BY <1>4
<1>7. /\ L!Result(op) \in {"approved", "rejected", "cancelled"} /\ balance' \in Balances
      /\ w.copy = balance =>
            /\ balance'.accrued = balance.accrued
            /\ seen.status = "pending" =>
                  /\ balance'.pending = L!Released(balance, seen.days)
                  /\ balance'.taken = balance.taken + (IF op = "approve" THEN seen.days ELSE 0)
            /\ seen.status # "pending" =>
                  /\ op = "cancel" /\ seen.status = "approved"
                  /\ balance'.pending = balance.pending
                  /\ balance'.taken = L!Most(0, balance.taken - seen.days)
      /\ op = "approve" => seen.status = "pending"
  BY <1>3, <1>4, <1>5, <1>6, DecisionWrites
<1>8. /\ request' \in [Leaves -> LeaveRow] /\ request'[q].status = L!Result(op) /\ request'[q].days = request[q].days
      /\ \A p \in Leaves \ {q} : request'[p] = request[p]
  BY <1>3, <1>5, <1>7 DEF LeaveInv, LeaveTypes, LeaveRow
<1>9. /\ \A v \in Users : LeaveWorkOK(v)'
      /\ leaveWork'[u].step = "idle" /\ \A v \in Users \ {u} : leaveWork'[v] = leaveWork[v]
      /\ leaveWork' \in [Users -> {L!Idle} \cup Raising \cup Judging \cup Locking \cup Cashing]
  <2>1. \A p \in Leaves : request[p].status # "none" <=> request'[p].status # "none"
    BY <1>4, <1>7, <1>8
  <2> QED BY <1>3, <2>1, LeaveDone
<1>10. attendance' \subseteq Leaves
  BY <1>3 DEF L!Attended, LeaveInv, LeaveTypes
<1>11. LeaveTypes'
  BY <1>3, <1>7, <1>8, <1>9, <1>10 DEF LeaveInv, LeaveTypes
<1>12. /\ leaveLapses \subseteq leaveLapses' /\ (balance # w.copy => "raced" \in leaveLapses')
       /\ request[q] # seen => "decided twice" \in leaveLapses'
       /\ q \in Held => "raced" \in leaveLapses'
  BY <1>3, <1>6 DEF L!Lapse, L!Overwrites, L!At, Held
<1>13. L!Result(op) = "approved" <=> op = "approve"
  BY DEF L!Result
<1>14. Fair' => BalanceOK'
  <2> SUFFICES ASSUME Fair' PROVE BalanceOK'
    OBVIOUS
  <2>1. BalanceOK /\ w.copy = balance /\ request[q] = seen /\ q \notin Held
    BY <1>12, StillFair DEF LeaveInv, Fair
  <2>2. seen.days \in Nat /\ balance.taken \in Nat /\ balance.pending \in Nat /\ balance.accrued \in Int /\ cashing.days \in Nat
        /\ balance'.taken \in Nat /\ balance'.pending \in Nat /\ balance'.accrued \in Int
    BY <1>4, <1>7 DEF Balances, LeaveRow, LeaveInv, LeaveTypes
  <2>3. Held' = Held
    <3>1. leaveWork[u].step # "hold" /\ leaveWork'[u].step # "hold"
      BY <1>0, <1>9
    <3> QED BY <1>9, <3>1 DEF Held
  <2>4. /\ \A p \in Leaves : Waits[p] \in Nat /\ Waits'[p] \in Nat /\ Took[p] \in Nat /\ Took'[p] \in Nat
        /\ \A p \in Leaves \ {q} : Waits[p] = Waits'[p] /\ Took[p] = Took'[p]
    <3>1. \A p \in Leaves \ {q} : Waits[p] = Waits'[p] /\ Took[p] = Took'[p]
      BY <1>8, <2>3 DEF Waits, Took
    <3>2. \A p \in Leaves : Waits[p] \in Nat /\ Took[p] \in Nat
      BY WaitsAndTook DEF LeaveInv
    <3>3. \A p \in Leaves : Waits'[p] \in Nat /\ Took'[p] \in Nat
      <4>1. \A p \in Leaves : request'[p].days \in Nat
        BY <1>8 DEF LeaveRow
      <4> QED BY <4>1 DEF Waits, Took
    <3> QED BY <3>1, <3>2, <3>3
  <2>5. /\ Waits[q] = (IF seen.status = "pending" THEN seen.days ELSE 0)
        /\ Took[q] = (IF seen.status = "approved" THEN seen.days ELSE 0)
        /\ Waits'[q] = 0 /\ Took'[q] = (IF op = "approve" THEN seen.days ELSE 0)
    BY <1>7, <1>8, <1>13, <2>1, <2>3 DEF Waits, Took
  <2>6. /\ Sum(Waits', Leaves) = Sum(Waits, Leaves) - Waits[q] + Waits'[q]
        /\ Sum(Took', Leaves) = Sum(Took, Leaves) - Took[q] + Took'[q]
    <3>1. \A p \in Leaves : Waits[p] \in Int /\ Waits'[p] \in Int /\ Took[p] \in Int /\ Took'[p] \in Int
      BY <2>4
    <3>2. Sum(Waits', Leaves) = Sum(Waits, Leaves) - Waits[q] + Waits'[q]
      BY <2>4, <3>1, LeaveFinite, SumChange
    <3>3. Sum(Took', Leaves) = Sum(Took, Leaves) - Took[q] + Took'[q]
      BY <2>4, <3>1, LeaveFinite, SumChange
    <3> QED BY <3>2, <3>3
  <2>7. Sum(Waits, Leaves) \in Nat /\ Waits[q] <= Sum(Waits, Leaves) /\ Sum(Took, Leaves) \in Nat /\ Took[q] <= Sum(Took, Leaves)
    BY <2>4, LeaveFinite, SumNat
  <2>8. balance.pending = Sum(Waits, Leaves) /\ balance.taken = Sum(Took, Leaves) + cashing.days
    BY <2>1 DEF BalanceOK
  <2>9. balance'.pending = balance.pending - Waits[q] /\ balance'.taken = balance.taken - Took[q] + Took'[q]
    <3>1. CASE seen.status = "pending"
      <4>1. Waits[q] = seen.days /\ Took[q] = 0
        BY <2>5, <3>1
      <4>2. seen.days <= balance.pending
        BY <2>7, <2>8, <4>1
      <4>3. balance'.pending = balance.pending - seen.days
        BY <1>7, <2>1, <2>2, <3>1, <4>2, LessAndMore DEF L!Released
      <4>4. balance'.taken = balance.taken + Took'[q]
        BY <1>7, <2>1, <2>5, <3>1
      <4> QED BY <2>2, <2>4, <4>1, <4>3, <4>4
    <3>2. CASE seen.status # "pending"
      <4>1. op = "cancel" /\ seen.status = "approved"
            /\ balance'.pending = balance.pending /\ balance'.taken = L!Most(0, balance.taken - seen.days)
        BY <1>7, <2>1, <3>2
      <4>2. Waits[q] = 0 /\ Took[q] = seen.days /\ Took'[q] = 0
        BY <2>5, <4>1
      <4>3. seen.days <= balance.taken
        BY <2>2, <2>7, <2>8, <4>2
      <4>4. balance'.taken = balance.taken - seen.days
        BY <2>2, <4>1, <4>3, LessAndMore
      <4> QED BY <2>2, <4>1, <4>2, <4>4
    <3> QED BY <3>1, <3>2
  <2>10. balance'.pending = Sum(Waits', Leaves) /\ balance'.taken = Sum(Took', Leaves) + cashing'.days
    <3>1. cashing'.days = cashing.days /\ Waits'[q] = 0
      BY <1>3, <2>5
    <3>2. balance'.taken = (Sum(Took, Leaves) - Took[q] + Took'[q]) + cashing.days
      BY <2>2, <2>4, <2>7, <2>8, <2>9, TakenFigures
    <3>3. balance'.pending = Sum(Waits, Leaves) - Waits[q] + 0
      BY <2>4, <2>7, <2>8, <2>9
    <3> QED BY <2>6, <3>1, <3>2, <3>3
  <2>11. ASSUME NEW v \in Users, leaveWork'[v].step = "hold"
        PROVE  request'[leaveWork'[v].request] = [status |-> "pending", days |-> leaveWork'[v].days]
    <3>1. v # u /\ leaveWork[v].step = "hold" /\ leaveWork'[v] = leaveWork[v]
      BY <1>9, <2>11
    <3>2. leaveWork[v].request \in Leaves /\ leaveWork[v].request # q
      BY <2>1, <3>1, LeaveShape DEF LeaveInv, Raises, Raising, Held
    <3> QED BY <1>8, <2>1, <3>1, <3>2 DEF BalanceOK
  <2>12. "overbooked" \notin leaveLapses' => L!Available(balance') >= 0
    <3> SUFFICES ASSUME "overbooked" \notin leaveLapses' PROVE L!Available(balance') >= 0
      OBVIOUS
    <3>1. L!Available(balance) >= 0
      BY <1>12, <2>1 DEF BalanceOK
    <3>2. Took'[q] <= Waits[q]
      BY <1>7, <2>2, <2>5
    <3>3. balance.accrued - balance.taken - balance.pending >= 0 /\ balance'.accrued = balance.accrued
      BY <1>7, <2>1, <3>1 DEF L!Available
    <3>4. balance'.accrued - balance'.taken - balance'.pending >= 0
      BY <2>2, <2>4, <2>9, <3>2, <3>3
    <3> QED BY <3>4 DEF L!Available
  <2>13. "overbooked" \notin leaveLapses' =>
          \A v \in Users : Raises(v)' \/ leaveWork'[v].step = "encash" => L!Covered(leaveWork'[v].copy, leaveWork'[v].days)
    BY <1>9, <1>12, <2>1, CoveredStill
  <2> QED BY <2>10, <2>11, <2>12, <2>13 DEF BalanceOK, L!Covered, L!Available
<1>15. L!AttendanceFollowsApproval'
  <2> SUFFICES ASSUME leaveLapses' \cap {"decided twice", "patched", "approved unseen"} = {}
               PROVE  attendance' = {p \in Leaves : request'[p].status = "approved"}
    BY DEF L!AttendanceFollowsApproval
  <2>1. attendance = {p \in Leaves : request[p].status = "approved"} /\ request[q] = seen
    BY <1>12 DEF LeaveInv, L!AttendanceFollowsApproval
  <2>2. attendance' = L!Attended(op, seen, q)
    BY <1>3, <1>5, <1>6
  <2>3. CASE op = "approve"
    BY <1>8, <1>13, <2>1, <2>2, <2>3 DEF L!Attended
  <2>4. CASE op = "cancel" /\ seen.status = "approved"
    BY <1>8, <1>13, <2>1, <2>2, <2>4 DEF L!Attended
  <2>5. CASE op # "approve" /\ ~(op = "cancel" /\ seen.status = "approved")
    <3>1. seen.status # "approved"
      BY <1>4, <1>5, <1>6, <2>5 DEF L!Decidable
    <3>2. attendance' = attendance
      BY <2>2, <2>5 DEF L!Attended
    <3> QED BY <1>8, <1>13, <2>1, <2>5, <3>1, <3>2
  <2> QED BY <2>3, <2>4, <2>5
<1>16. L!LedgerIsTheBaseline'
  BY <1>3, <1>12, StillFair DEF LeaveInv
<1>17. cashing'.status = "none" => cashing'.days = 0
  BY <1>3 DEF LeaveInv
<1> QED BY <1>9, <1>11, <1>14, <1>15, <1>16, <1>17 DEF LeaveInv

LEMMA LeaveStepOK == ASSUME L!LeaveAssumption, LeaveInv, [L!Next]_(L!vars) PROVE LeaveInv'
<1>1. ASSUME NEW u \in Users, NEW q \in Leaves, NEW days \in LeaveDays, NEW portal \in BOOLEAN,
             L!BeginRequest(u, q, days, portal)
      PROVE  LeaveInv'
  BY <1>1, BeginRequestOK
<1>2. ASSUME NEW u \in Users, NEW q \in Leaves, NEW op \in {"approve", "reject", "cancel"}, L!BeginDecide(u, op, q)
      PROVE  LeaveInv'
  BY <1>2, BeginDecideOK
<1>3. ASSUME NEW u \in Users, L!SaveRequest(u) \/ L!Hold(u) \/ L!Lock(u) \/ L!Decide(u) \/ L!Encash(u) PROVE LeaveInv'
  BY <1>3, SaveRequestOK, HoldOK, LockOK, DecideOK, EncashOK
<1>4. ASSUME NEW u \in Users, NEW days \in LeaveDays, L!BeginEncash(u, days) PROVE LeaveInv'
  BY <1>4, BeginEncashOK
<1>5. ASSUME NEW q \in Leaves, NEW status \in {"cancelled", "pending"}, L!Patch(q, status) PROVE LeaveInv'
  BY <1>5, PatchOK
<1>6. ASSUME L!Accrue \/ L!CancelEncashment \/ L!Settle \/ L!TrueUp \/ L!NextDay PROVE LeaveInv'
  BY <1>6, AccrueOK, CancelEncashmentOK, SettleOK, TrueUpOK, NextDayOK
<1>7. ASSUME UNCHANGED L!vars PROVE LeaveInv'
  <2>1. /\ UNCHANGED <<direct, request, attendance, balance, cashing, accrued, baseline, sources, today, leaveWork,
                       leaveOps, leaveLapses>>
    BY <1>7 DEF L!vars
  <2>2. LeaveTypes'
    BY <2>1 DEF LeaveInv, LeaveTypes
  <2>3. balance'.accrued >= balance.accrued
    BY <2>1, AccruedIsInt
  <2>4. L!LedgerIsTheBaseline'
    BY <2>1, StillFair DEF LeaveInv
  <2> QED BY <2>1, <2>2, <2>3, <2>4, AccountsOnly
<1> QED BY <1>1, <1>2, <1>3, <1>4, <1>5, <1>6, <1>7 DEF L!Next

\* In every state the balance of an employee is that of his requests, those still being raised
\* apart, unless two copies of it were saved over one another (LeaveBalance.save in LeaveRequest's
\* views): what LeaveAgrees follows from.
THEOREM LeaveInvariance == L!LeaveAssumption /\ L!Spec => []LeaveInv
<1> SUFFICES ASSUME L!LeaveAssumption PROVE L!Spec => []LeaveInv
  OBVIOUS
<1>1. L!Init => LeaveInv
  BY LeaveInitOK
<1>2. LeaveInv /\ [L!Next]_(L!vars) => LeaveInv'
  BY LeaveStepOK
<1> QED BY <1>1, <1>2, PTL DEF L!Spec

\* The days of the requests of a status, as a sum.
LEMMA DaysAreSum ==
    ASSUME NEW D, IsFiniteSet(D), \A q \in D : request[q].days \in Int
    PROVE  L!MapThenSumSet(LAMBDA q : request[q].days, D) = Sum([q \in D |-> request[q].days], D)
<1> DEFINE g == [q \in D |-> request[q].days]
           Fold(F) == F = [s \in SUBSET D |-> IF s = {} THEN 0 ELSE request[Chosen(s)].days + F[s \ {Chosen(s)}]]
<1>1. \A q \in D : g[q] = request[q].days /\ g[q] \in Int
  OBVIOUS
<1>2. \A F : Fold(F) <=> IsFold(F, g, D)
  <2>1. \A s \in SUBSET D : s # {} => g[Chosen(s)] = request[Chosen(s)].days
    BY <1>1, AnyIn
  <2> HIDE DEF g
  <2> QED BY <2>1 DEF IsFold
<1>3. L!MapThenSumSet(LAMBDA q : request[q].days, D) = (CHOOSE F : Fold(F))[D]
  BY DEF L!MapThenSumSet, L!MapThenFoldSet, Chosen
<1> HIDE DEF Fold, g
<1>4. IsFold(CHOOSE F : Fold(F), g, D)
  <2>1. \E F : IsFold(F, g, D)
    BY <1>1, SumExists
  <2>2. \E F : Fold(F)
    BY <1>2, <2>1
  <2>3. Fold(CHOOSE F : Fold(F))
    BY <2>2
  <2> QED BY <1>2, <2>3
<1>5. Sum(g, D) = (CHOOSE F : Fold(F))[D]
  <2>1. D \in SUBSET D
    OBVIOUS
  <2> QED BY <1>1, <1>4, <2>1, SumOnSubset
<1> QED BY <1>3, <1>5 DEF g

LEMMA DaysOfStatus ==
    ASSUME L!LeaveAssumption, LeaveTypes, NEW status, NEW g,
           \A q \in Leaves : g[q] = IF request[q].status = status THEN request[q].days ELSE 0
    PROVE  L!DaysOf(status) = Sum(g, Leaves)
<1> DEFINE D == {q \in Leaves : request[q].status = status}
<1>1. IsFiniteSet(Leaves) /\ IsFiniteSet(D) /\ D \in SUBSET Leaves /\ \A q \in Leaves : request[q].days \in Int
  <2>1. \A q \in Leaves : request[q].days \in Int
    BY DEF LeaveTypes, LeaveRow
  <2> QED BY <2>1, LeaveFinite, FS_Subset
<1>2. (\A q \in Leaves : g[q] \in Int) /\ \A q \in Leaves \ D : g[q] = 0
  BY <1>1
<1>3. \A q \in D : [p \in D |-> request[p].days][q] = g[q] /\ g[q] \in Int
  BY <1>2
<1>4. L!DaysOf(status) = L!MapThenSumSet(LAMBDA q : request[q].days, D)
  BY DEF L!DaysOf
<1> HIDE DEF D
<1>5. Sum(g, Leaves) = Sum(g, D)
  BY <1>1, <1>2, SumSupport
<1>6. L!MapThenSumSet(LAMBDA q : request[q].days, D) = Sum([p \in D |-> request[p].days], D)
  BY <1>1, DaysAreSum
<1>7. Sum([p \in D |-> request[p].days], D) = Sum(g, D)
  BY <1>1, <1>3, SumSame
<1> QED BY <1>4, <1>5, <1>6, <1>7

LEMMA LeaveFollows ==
    ASSUME L!LeaveAssumption, LeaveInv
    PROVE  L!BalanceFollowsRequests /\ L!AttendanceFollowsApproval /\ L!LedgerIsTheBaseline /\ L!TypeOK
<1>1. L!BalanceFollowsRequests
  <2> SUFFICES ASSUME L!Quiet, Fair
               PROVE  /\ balance.pending = L!DaysOf("pending") /\ balance.taken = L!DaysOf("approved") + cashing.days
                      /\ "overbooked" \notin leaveLapses => L!Available(balance) >= 0
    BY DEF L!BalanceFollowsRequests, Fair
  <2>1. BalanceOK
    BY DEF LeaveInv
  <2>2. Held = {}
    BY DEF L!Quiet, L!At, Held
  <2>3. \A q \in Leaves : Waits[q] = IF request[q].status = "pending" THEN request[q].days ELSE 0
    BY <2>2 DEF Waits
  <2>4. \A q \in Leaves : Took[q] = IF request[q].status = "approved" THEN request[q].days ELSE 0
    BY DEF Took
  <2>5. L!DaysOf("pending") = Sum(Waits, Leaves)
    BY <2>3, DaysOfStatus DEF LeaveInv
  <2>6. L!DaysOf("approved") = Sum(Took, Leaves)
    BY <2>4, DaysOfStatus DEF LeaveInv
  <2> QED BY <2>1, <2>5, <2>6 DEF BalanceOK
<1>2. L!TypeOK
  BY DEF LeaveInv, LeaveTypes, L!TypeOK, LeaveRow, Balances
<1> QED BY <1>1, <1>2 DEF LeaveInv

-----------------------------------------------------------------------------
(* Plans and the wallets of partners.                                      *)

PlanRow == [plan : {"paid", "free"}, status : {"trialing", "active", "past_due", "canceled"}, trialEnd : Int, end : Int]
PaymentRow == [kind : {"payment"}, reference : Payments, amount : {Commission}, status : {"pending", "confirmed"}, since : Int]
CreditRow == [kind : {"credit"}, reference : Int, amount : Int, status : {"confirmed"}, since : Int]
WalletRow == PaymentRow \cup CreditRow
Editing == [step : {"save"}, op : {"trial", "upgrade", "downgrade", "free", "cancel"}, org : B!Orgs, row : PlanRow \cup {B!None}]
Buying == [step : {"activate"}, org : Clients, reference : Payments, earned : Nat]
Marking == [step : {"mark"}, query : {"trialing", "active"}, day : Int, orgs : SUBSET B!Orgs]
Spending == [step : {"check", "apply"}, amount : Nat, covers : BOOLEAN, row : PlanRow]
PlanWork == {B!None} \cup Editing \cup Buying \cup Marking \cup Spending

PlanTypes ==
    /\ date \in 0..Horizon /\ sub \in [B!Orgs -> PlanRow \cup {B!None}]
    /\ settled \subseteq [reference : Payments, org : Clients] /\ IsFiniteSet(settled)
    /\ ledger \subseteq WalletRow /\ IsFiniteSet(ledger)
    /\ link \in [Clients -> Nat] /\ total \in Nat /\ renewals \in Nat
    /\ trials \in [B!Orgs -> Nat] /\ cover \in [B!Orgs -> Int] /\ subWork \in [Users -> PlanWork]

\* What an organisation has paid for runs as long as its plan does; a trial shows in the row.
SubOK(o) ==
    /\ cover[o] <= date + PeriodDays
    /\ cover[o] >= date /\ B!Clear(o, {"given up", "saved over", "expired blindly"}) =>
          sub[o] \in PlanRow /\ sub[o].plan = "paid" /\ sub[o].status = "active" /\ sub[o].end >= cover[o]
    /\ B!Clear(o, {"trial forgotten", "saved over"}) => trials[o] = 0 \/ (trials[o] = 1 /\ B!TrialUsed(sub[o]))
OwnOK ==
    /\ sub[Own] \in PlanRow
    /\ B!Clear(Own, {"given up", "saved over"}) => sub[Own].plan = "paid"

\* The wallet: what the rows add up to.
AmountOf == [row \in WalletRow |-> row.amount]
Confirmed(wallet) == {row \in wallet : row.status = "confirmed"}
InWallet(wallet) == Sum(AmountOf, Confirmed(wallet))
WalletOK ==
    /\ {row.reference : row \in ledger \ B!Credits(ledger)} = {s.reference : s \in settled}
    /\ total = 2 * Commission * Cardinality(settled)
    /\ \A o \in Clients : B!Clear(o, {"earnings lost"}) => link[o] = Commission * Cardinality({s \in settled : s.org = o})
    /\ B!Clear(Own, {"applied twice"}) => InWallet(ledger) >= 0
    /\ \A row \in B!Credits(ledger) : row.reference > -Cardinality(B!Credits(ledger))
    /\ B!Clear(Own, {"renewed again"}) => -Sum(AmountOf, B!Credits(ledger)) >= Price * renewals

\* What a request or a task works on: a payment nobody has settled, rows that are there, and credit
\* that is enough for the plan and in the wallet, unless it was spent in between.
PlanWorkOK(v) ==
    /\ v.step = "activate" => \A s \in settled : s.reference # v.reference
    /\ v.step = "mark" => v.day <= date /\ \A o \in v.orgs : sub[o] \in PlanRow
    /\ v.step \in {"check", "apply"} /\ v.covers => v.amount >= B!Costs(v.row.plan) \/ (v.step = "apply" /\ v.amount = 0)
    /\ v.step = "apply" /\ B!Credits(ledger) = {} => v.amount <= InWallet(ledger)
PlanApart ==
    \A v, w \in Users :
        v # w /\ B!At(v, "activate") /\ B!At(w, "activate") => subWork[v].reference # subWork[w].reference

PlanInv ==
    /\ PlanTypes /\ (\A o \in B!Orgs : SubOK(o)) /\ OwnOK /\ WalletOK
    /\ (\A w \in Users : subWork[w] # B!None => PlanWorkOK(subWork[w])) /\ PlanApart

LEMMA NoneIsNoRow == B!None \notin PlanRow
BY DEF B!None, PlanRow
LEMMA WorkShape ==
    ASSUME PlanTypes, NEW w \in Users
    PROVE  /\ B!At(w, "save") => subWork[w] \in Editing
           /\ B!At(w, "activate") => subWork[w] \in Buying
           /\ B!At(w, "mark") => subWork[w] \in Marking
           /\ B!At(w, "check") \/ B!At(w, "apply") => subWork[w] \in Spending
BY DEF PlanTypes, PlanWork, B!At, Editing, Buying, Marking, Spending
LEMMA WorkIsSome == B!None \notin Editing \cup Buying \cup Marking \cup Spending
BY DEF B!None, Editing, Buying, Marking, Spending

LEMMA PlanCounts == \A X : B!Cardinality(X) = Cardinality(X)
BY DEF B!Cardinality, Cardinality

LEMMA PlanNumbers ==
    ASSUME B!PlanAssumption PROVE TrialDays \in Nat /\ PeriodDays \in Nat /\ Price \in Nat /\ Commission \in Nat /\ Horizon \in Nat
BY DEF B!PlanAssumption

LEMMA OwnIsOrg == Own \in B!Orgs /\ Clients \subseteq B!Orgs
BY DEF B!Orgs

\* Amounts, and sets of rows.
LEMMA WalletAmounts ==
    ASSUME B!PlanAssumption, NEW wallet \in SUBSET WalletRow, IsFiniteSet(wallet)
    PROVE  /\ \A row \in WalletRow : AmountOf[row] = row.amount /\ row.amount \in Int
           /\ \A row \in WalletRow : row.kind # "credit" => row.amount >= 0
           /\ Confirmed(wallet) \in SUBSET WalletRow /\ IsFiniteSet(Confirmed(wallet)) /\ InWallet(wallet) \in Int
           /\ B!Credits(wallet) \in SUBSET WalletRow /\ IsFiniteSet(B!Credits(wallet)) /\ Sum(AmountOf, B!Credits(wallet)) \in Int
           /\ Cardinality(B!Credits(wallet)) \in Nat
<1>1. \A row \in WalletRow : AmountOf[row] = row.amount /\ row.amount \in Int /\ (row.kind # "credit" => row.amount >= 0)
  BY PlanNumbers DEF AmountOf, WalletRow, PaymentRow, CreditRow
<1>2. Confirmed(wallet) \in SUBSET WalletRow /\ IsFiniteSet(Confirmed(wallet)) /\ \A row \in Confirmed(wallet) : AmountOf[row] \in Int
  BY <1>1, FS_Subset DEF Confirmed
<1>3. B!Credits(wallet) \in SUBSET WalletRow /\ IsFiniteSet(B!Credits(wallet)) /\ \A row \in B!Credits(wallet) : AmountOf[row] \in Int
  BY <1>1, FS_Subset DEF B!Credits
<1>4. InWallet(wallet) \in Int /\ Sum(AmountOf, B!Credits(wallet)) \in Int
  BY <1>2, <1>3, SumRemove DEF InWallet
<1> QED BY <1>1, <1>2, <1>3, <1>4, FS_CardinalityType

LEMMA PlanInitOK == ASSUME B!PlanAssumption, B!Init PROVE PlanInv
<1>1. B!Paid \in PlanRow /\ B!Paid.plan = "paid" /\ B!Paid.status = "active" /\ B!Paid.end = PeriodDays /\ B!Never = -1
      /\ B!Paid.trialEnd = -1
  BY PlanNumbers DEF B!Paid, PlanRow, B!Never
<1>2. /\ date = 0 /\ sub = [o \in B!Orgs |-> IF o = Own THEN B!Paid ELSE B!None]
      /\ settled = {} /\ ledger = {} /\ link = [o \in Clients |-> 0] /\ total = 0
      /\ subWork = [w \in Users |-> B!None]
      /\ trials = [o \in B!Orgs |-> 0] /\ cover = [o \in B!Orgs |-> IF o = Own THEN PeriodDays ELSE -1]
      /\ renewals = 0 /\ subLapses = {}
  BY <1>1 DEF B!Init
<1>3. PlanTypes
  <2>1. IsFiniteSet({})
    BY FS_EmptySet
  <2>2. 0 \in 0..Horizon /\ \A o \in B!Orgs : cover[o] \in Int
    BY <1>2, PlanNumbers
  <2> QED BY <1>1, <1>2, <2>1, <2>2 DEF PlanTypes, PlanWork
<1>4. ASSUME NEW o \in B!Orgs PROVE SubOK(o)
  <2>1. trials[o] = 0 /\ cover[o] = (IF o = Own THEN PeriodDays ELSE -1) /\ (o = Own => sub[o] = B!Paid)
    BY <1>2
  <2>2. cover[o] <= date + PeriodDays /\ (cover[o] >= date => o = Own)
    BY <1>2, <2>1, PlanNumbers
  <2>3. o = Own => sub[o] \in PlanRow /\ sub[o].plan = "paid" /\ sub[o].status = "active" /\ sub[o].end >= cover[o]
    BY <1>1, <2>1, PlanNumbers
  <2> QED BY <2>1, <2>2, <2>3 DEF SubOK
<1>5. OwnOK
  BY <1>1, <1>2, OwnIsOrg DEF OwnOK
<1>6. WalletOK
  <2>1. ledger \ B!Credits(ledger) = {} /\ B!Credits(ledger) = {} /\ Confirmed(ledger) = {}
    BY <1>2 DEF B!Credits, Confirmed
  <2>2. Cardinality({}) = 0 /\ Sum(AmountOf, {}) = 0
    BY FS_EmptySet, SumEmpty
  <2>3. 2 * Commission * 0 = 0 /\ Commission * 0 = 0 /\ Price * 0 = 0
    BY PlanNumbers
  <2>4. \A o \in Clients : {s \in settled : s.org = o} = {} /\ link[o] = 0
    BY <1>2
  <2>5. {row.reference : row \in ledger \ B!Credits(ledger)} = {s.reference : s \in settled}
    BY <1>2
  <2>6. total = 2 * Commission * Cardinality(settled)
    BY <1>2, <2>2, <2>3
  <2>7. \A o \in Clients : link[o] = Commission * Cardinality({s \in settled : s.org = o})
    BY <2>2, <2>3, <2>4
  <2>8. InWallet(ledger) >= 0
    BY <2>1, <2>2 DEF InWallet
  <2>9. -Sum(AmountOf, B!Credits(ledger)) >= Price * renewals
    BY <1>2, <2>1, <2>2, <2>3
  <2> QED BY <2>1, <2>5, <2>6, <2>7, <2>8, <2>9 DEF WalletOK
<1>7. \A w \in Users : subWork[w] = B!None
  BY <1>2
<1>8. PlanApart
  BY <1>7 DEF PlanApart, B!At
<1> QED BY <1>3, <1>4, <1>5, <1>6, <1>7, <1>8 DEF PlanInv

\* Only what one worker is at changes.
LEMMA PlanBegins ==
    ASSUME PlanInv, NEW w \in Users, NEW new \in PlanWork, subWork' = [subWork EXCEPT ![w] = new],
           UNCHANGED <<date, sub, settled, ledger, link, total, trials, cover, renewals, subLapses>>,
           new # B!None => PlanWorkOK(new),
           new # B!None /\ new.step = "activate" =>
              \A v \in Users \ {w} : B!At(v, "activate") => subWork[v].reference # new.reference
    PROVE  PlanInv'
<1>1. subWork'[w] = new /\ (\A v \in Users \ {w} : subWork'[v] = subWork[v]) /\ subWork' \in [Users -> PlanWork]
  BY DEF PlanInv, PlanTypes
<1>2. PlanTypes'
  BY <1>1 DEF PlanInv, PlanTypes
<1>3. (\A o \in B!Orgs : SubOK(o)') /\ OwnOK'
  BY DEF PlanInv, SubOK, OwnOK, B!Clear
<1>4. WalletOK'
  BY DEF PlanInv, WalletOK, B!Clear
<1>5. ASSUME NEW x, PlanWorkOK(x) PROVE PlanWorkOK(x)'
  BY <1>5 DEF PlanWorkOK, InWallet, Confirmed, B!Credits
<1>6. PlanApart'
  <2> SUFFICES ASSUME NEW v \in Users, NEW t \in Users, v # t, B!At(v, "activate")', B!At(t, "activate")'
               PROVE  subWork'[v].reference # subWork'[t].reference
    BY DEF PlanApart
  <2>1. CASE v # w /\ t # w
    BY <1>1, <2>1 DEF PlanInv, PlanApart, B!At
  <2>2. CASE v = w
    BY <1>1, <2>2 DEF B!At
  <2>3. CASE t = w
    BY <1>1, <2>3 DEF B!At
  <2> QED BY <2>1, <2>2, <2>3
<1>7. ASSUME NEW v \in Users, subWork'[v] # B!None PROVE PlanWorkOK(subWork[v])'
  <2>1. PICK x : x = subWork'[v]
    OBVIOUS
  <2>2. PlanWorkOK(x)
    BY <1>1, <1>7, <2>1 DEF PlanInv
  <2>3. PlanWorkOK(x)'
    BY <1>5, <2>2
  <2> QED BY <2>1, <2>3 DEF PlanWorkOK
<1> QED BY <1>2, <1>3, <1>4, <1>6, <1>7 DEF PlanInv

LEMMA PlanReadOK ==
    ASSUME PlanInv, NEW w \in Users, NEW o \in B!Orgs, NEW op \in {"trial", "upgrade", "downgrade", "free", "cancel"},
           B!Read(w, o, op)
    PROVE  PlanInv'
<1> DEFINE new == [step |-> "save", op |-> op, org |-> o, row |-> sub[o]]
<1>1. /\ subWork' = [subWork EXCEPT ![w] = new]
      /\ UNCHANGED <<date, sub, settled, ledger, link, total, trials, cover, renewals, subLapses>>
  BY DEF B!Read, B!Take, B!Goto, B!rows, B!told
<1>2. new \in PlanWork /\ new.step = "save"
  BY DEF PlanInv, PlanTypes, PlanWork, Editing
<1> HIDE DEF new
<1>3. PlanWorkOK(new)
  BY <1>2 DEF PlanWorkOK
<1> QED BY <1>1, <1>2, <1>3, PlanBegins

LEMMA PayOK ==
    ASSUME PlanInv, NEW w \in Users, NEW o \in Clients, NEW r \in Payments, B!Pay(w, o, r)
    PROVE  PlanInv'
<1> DEFINE new == [step |-> "activate", org |-> o, reference |-> r, earned |-> link[o]]
<1>1. /\ subWork' = [subWork EXCEPT ![w] = new]
      /\ ~\E s \in settled : s.reference = r
      /\ \A v \in Users : B!At(v, "activate") => subWork[v].reference # r
      /\ UNCHANGED <<date, sub, settled, ledger, link, total, trials, cover, renewals, subLapses>>
  BY DEF B!Pay, B!Take, B!Goto, B!rows, B!told
<1>2. new \in PlanWork /\ new.step = "activate" /\ new.reference = r
  <2>1. link[o] \in Nat
    BY DEF PlanInv, PlanTypes
  <2> QED BY <2>1 DEF PlanWork, Buying
<1> HIDE DEF new
<1>3. PlanWorkOK(new)
  BY <1>1, <1>2 DEF PlanWorkOK
<1> QED BY <1>1, <1>2, <1>3, PlanBegins

LEMMA OverAreRows ==
    ASSUME PlanInv, NEW query, NEW day \in Int PROVE B!Over(query, day) \subseteq B!Orgs /\ \A o \in B!Over(query, day) : sub[o] \in PlanRow
BY DEF B!Over, PlanInv, PlanTypes

LEMMA ListOK == ASSUME PlanInv, NEW w \in Users, B!List(w) PROVE PlanInv'
<1> DEFINE new == [step |-> "mark", query |-> "trialing", day |-> date, orgs |-> B!Over("trialing", date)]
<1>1. /\ subWork' = [subWork EXCEPT ![w] = new]
      /\ UNCHANGED <<date, sub, settled, ledger, link, total, trials, cover, renewals, subLapses>>
  BY DEF B!List, B!Take, B!Goto, B!rows, B!told
<1>2. date \in Int /\ date <= date
  BY DEF PlanInv, PlanTypes
<1>3. new \in PlanWork /\ new.step = "mark" /\ new.day = date /\ new.orgs = B!Over("trialing", date)
  BY <1>2, OverAreRows DEF PlanWork, Marking
<1> HIDE DEF new
<1>4. PlanWorkOK(new)
  BY <1>2, <1>3, OverAreRows DEF PlanWorkOK
<1> QED BY <1>1, <1>3, <1>4, PlanBegins

LEMMA MarkedAllOK == ASSUME PlanInv, NEW w \in Users, B!MarkedAll(w) PROVE PlanInv'
<1>0. subWork[w] # B!None /\ subWork[w].step = "mark" /\ subWork[w] \in Marking /\ PlanWorkOK(subWork[w])
  BY WorkShape DEF B!MarkedAll, B!At, PlanInv
<1>1. PICK v \in Marking : v = subWork[w]
  BY <1>0
<1> DEFINE new == IF v.query = "active" THEN B!None ELSE [v EXCEPT !.query = "active", !.orgs = B!Over("active", v.day)]
<1>2. /\ subWork' = [subWork EXCEPT ![w] = new]
      /\ UNCHANGED <<date, sub, settled, ledger, link, total, trials, cover, renewals, subLapses>>
  BY <1>1 DEF B!MarkedAll, B!Goto, B!rows, B!told
<1>3. v.day \in Int /\ v.day <= date
  BY <1>0, <1>1 DEF Marking, PlanWorkOK
<1>4. /\ new \in PlanWork
      /\ new # B!None => new.step = "mark" /\ new.day = v.day /\ new.orgs = B!Over("active", v.day)
  <2>1. CASE v.query = "active"
    BY <2>1 DEF PlanWork
  <2>2. CASE v.query # "active"
    <3>1. new = [v EXCEPT !.query = "active", !.orgs = B!Over("active", v.day)]
      BY <2>2
    <3> HIDE DEF new
    <3>2. new \in Marking /\ new.step = "mark" /\ new.day = v.day /\ new.orgs = B!Over("active", v.day)
      BY <1>3, <3>1, OverAreRows DEF Marking
    <3> QED BY <3>2 DEF PlanWork
  <2> QED BY <2>1, <2>2
<1> HIDE DEF new
<1>5. new # B!None => PlanWorkOK(new)
  BY <1>3, <1>4, OverAreRows DEF PlanWorkOK
<1>6. new # B!None => new.step # "activate"
  BY <1>4
<1> QED BY <1>2, <1>4, <1>5, <1>6, PlanBegins

LEMMA RowsAreSum ==
    ASSUME NEW D \in SUBSET WalletRow, IsFiniteSet(D), \A row \in D : AmountOf[row] = row.amount /\ row.amount \in Int
    PROVE  B!MapThenSumSet(LAMBDA row : row.amount, D) = Sum(AmountOf, D)
<1> DEFINE g == AmountOf
           Fold(F) == F = [s \in SUBSET D |-> IF s = {} THEN 0 ELSE Chosen(s).amount + F[s \ {Chosen(s)}]]
<1>1. \A q \in D : g[q] = q.amount /\ g[q] \in Int
  OBVIOUS
<1>2. \A F : Fold(F) <=> IsFold(F, g, D)
  <2>1. \A s \in SUBSET D : s # {} => g[Chosen(s)] = Chosen(s).amount
    BY <1>1, AnyIn
  <2> HIDE DEF g
  <2> QED BY <2>1 DEF IsFold
<1>3. B!MapThenSumSet(LAMBDA row : row.amount, D) = (CHOOSE F : Fold(F))[D]
  BY DEF B!MapThenSumSet, B!MapThenFoldSet, Chosen
<1> HIDE DEF Fold, g
<1>4. IsFold(CHOOSE F : Fold(F), g, D)
  <2>1. \E F : IsFold(F, g, D)
    BY <1>1, SumExists
  <2>2. \E F : Fold(F)
    BY <1>2, <2>1
  <2>3. Fold(CHOOSE F : Fold(F))
    BY <2>2
  <2> QED BY <1>2, <2>3
<1>5. Sum(g, D) = (CHOOSE F : Fold(F))[D]
  <2>1. D \in SUBSET D
    OBVIOUS
  <2> QED BY <1>1, <1>4, <2>1, SumOnSubset
<1> QED BY <1>3, <1>5 DEF g

LEMMA AvailableIsSum ==
    ASSUME B!PlanAssumption, NEW wallet \in SUBSET WalletRow, IsFiniteSet(wallet) PROVE B!Available(wallet) = InWallet(wallet)
<1>1. Confirmed(wallet) \in SUBSET WalletRow /\ IsFiniteSet(Confirmed(wallet)) /\ \A row \in Confirmed(wallet) : AmountOf[row] = row.amount /\ row.amount \in Int
  BY WalletAmounts
<1>2. B!Available(wallet) = B!MapThenSumSet(LAMBDA row : row.amount, Confirmed(wallet))
  BY DEF B!Available, Confirmed
<1> QED BY <1>1, <1>2, RowsAreSum DEF InWallet

LEMMA LedgerRows ==
    ASSUME B!PlanAssumption, PlanTypes
    PROVE  /\ ledger \in SUBSET WalletRow /\ IsFiniteSet(ledger) /\ B!Available(ledger) = InWallet(ledger)
           /\ InWallet(ledger) \in Int /\ B!Available(ledger) \in Int
<1>1. ledger \in SUBSET WalletRow /\ IsFiniteSet(ledger)
  BY DEF PlanTypes
<1> QED BY <1>1, AvailableIsSum, WalletAmounts

LEMMA OfferOK ==
    ASSUME B!PlanAssumption, PlanInv, NEW w \in Users, NEW amount \in {Commission, Price}, B!Offer(w, amount)
    PROVE  PlanInv'
<1>1. PICK applied : applied = IF amount < B!Available(ledger) THEN amount ELSE B!Available(ledger)
  OBVIOUS
<1>2. applied \in Nat
  BY <1>1, LedgerRows, PlanNumbers DEF B!Offer, PlanInv
<1>3. PICK covers \in BOOLEAN : covers = (applied >= B!Costs(sub[Own].plan))
  <2> DEFINE enough == applied >= B!Costs(sub[Own].plan)
  <2>1. enough \in BOOLEAN
    OBVIOUS
  <2> HIDE DEF enough
  <2>2. \E c \in BOOLEAN : c = enough
    BY <2>1, Zenon
  <2> QED BY <2>2, Zenon DEF enough
<1> DEFINE new == [step |-> "check", amount |-> applied, covers |-> covers, row |-> sub[Own]]
<1>4. /\ subWork' = [subWork EXCEPT ![w] = new]
      /\ UNCHANGED <<date, sub, settled, ledger, link, total, trials, cover, renewals, subLapses>>
  BY <1>1, <1>3 DEF B!Offer, B!Take, B!Goto, B!rows, B!told
<1>5. /\ new \in PlanWork /\ new.step = "check" /\ new.amount = applied
      /\ new.covers => applied >= B!Costs(new.row.plan)
  <2>1. sub[Own] \in PlanRow
    BY DEF PlanInv, OwnOK
  <2> QED BY <1>2, <1>3, <2>1 DEF PlanWork, Spending
<1> HIDE DEF new
<1>6. PlanWorkOK(new)
  BY <1>5 DEF PlanWorkOK
<1> QED BY <1>4, <1>5, <1>6, PlanBegins

LEMMA CheckOK == ASSUME B!PlanAssumption, PlanInv, NEW w \in Users, B!Check(w) PROVE PlanInv'
<1>0. subWork[w] # B!None /\ subWork[w].step = "check" /\ subWork[w] \in Spending /\ PlanWorkOK(subWork[w])
  BY WorkShape DEF B!Check, B!At, PlanInv
<1>1. PICK v \in Spending : v = subWork[w]
  BY <1>0
<1> DEFINE new == IF B!Credits(ledger) # {} THEN [v EXCEPT !.step = "apply", !.amount = 0]
                  ELSE IF B!Enough(v.amount) THEN [v EXCEPT !.step = "apply"] ELSE B!None
<1>2. /\ subWork' = [subWork EXCEPT ![w] = new]
      /\ UNCHANGED <<date, sub, settled, ledger, link, total, trials, cover, renewals, subLapses>>
  BY <1>1 DEF B!Check, B!Goto, B!rows, B!told
<1>3. v.covers => v.amount >= B!Costs(v.row.plan)
  BY <1>0, <1>1 DEF PlanWorkOK
<1>4. CASE B!Credits(ledger) # {}
  <2>1. new = [v EXCEPT !.step = "apply", !.amount = 0]
    BY <1>4
  <2> HIDE DEF new
  <2>2. new \in PlanWork /\ new.step = "apply" /\ new.amount = 0
    BY <2>1 DEF Spending, PlanWork
  <2>3. PlanWorkOK(new)
    BY <1>4, <2>2 DEF PlanWorkOK
  <2> QED BY <1>2, <2>2, <2>3, PlanBegins
<1>5. CASE B!Credits(ledger) = {} /\ B!Enough(v.amount)
  <2>1. new = [v EXCEPT !.step = "apply"]
    BY <1>5
  <2> HIDE DEF new
  <2>2. new \in PlanWork /\ new.step = "apply" /\ new.amount = v.amount /\ new.covers = v.covers /\ new.row = v.row
    BY <2>1 DEF Spending, PlanWork
  <2>3. v.amount <= InWallet(ledger)
    BY <1>5, LedgerRows DEF B!Enough, PlanInv
  <2>4. PlanWorkOK(new)
    BY <1>3, <2>2, <2>3 DEF PlanWorkOK
  <2> QED BY <1>2, <2>2, <2>4, PlanBegins
<1>6. CASE B!Credits(ledger) = {} /\ ~B!Enough(v.amount)
  <2>1. new = B!None /\ B!None \in PlanWork
    BY <1>6 DEF PlanWork
  <2> QED BY <1>2, <2>1, PlanBegins
<1> QED BY <1>4, <1>5, <1>6

LEMMA ClearBefore ==
    ASSUME NEW o, NEW names, \A name \in names : <<name, o>> \in subLapses => <<name, o>> \in subLapses', B!Clear(o, names)'
    PROVE  B!Clear(o, names)
BY DEF B!Clear

LEMMA OtherSub ==
    ASSUME NEW p, SubOK(p), date' = date, sub'[p] = sub[p], cover'[p] = cover[p], trials'[p] = trials[p],
           \A name : <<name, p>> \in subLapses => <<name, p>> \in subLapses'
    PROVE  SubOK(p)'
BY DEF SubOK, B!Clear, B!TrialUsed

\* A step that writes one subscription, and no money.
LEMMA SubStep ==
    ASSUME PlanInv, NEW w \in Users, NEW new \in PlanWork, subWork' = [subWork EXCEPT ![w] = new],
           NEW o \in B!Orgs, NEW row \in PlanRow, sub' = [sub EXCEPT ![o] = row],
           UNCHANGED <<date, settled, ledger, link, total, cover, renewals>>,
           trials' \in [B!Orgs -> Nat], \A p \in B!Orgs \ {o} : trials'[p] = trials[p],
           subLapses \subseteq subLapses', SubOK(o)', o = Own => OwnOK',
           new # B!None => PlanWorkOK(new), new # B!None => new.step = "mark"
    PROVE  PlanInv'
<1>1. subWork'[w] = new /\ (\A v \in Users \ {w} : subWork'[v] = subWork[v]) /\ subWork' \in [Users -> PlanWork]
  BY DEF PlanInv, PlanTypes
<1>2. sub' \in [B!Orgs -> PlanRow \cup {B!None}] /\ sub'[o] = row /\ \A p \in B!Orgs \ {o} : sub'[p] = sub[p]
  BY DEF PlanInv, PlanTypes
<1>3. PlanTypes'
  BY <1>1, <1>2 DEF PlanInv, PlanTypes
<1>4. \A p \in B!Orgs : SubOK(p)'
  <2>1. ASSUME NEW p \in B!Orgs \ {o} PROVE SubOK(p)'
    <3>1. SubOK(p) /\ sub'[p] = sub[p] /\ cover'[p] = cover[p] /\ trials'[p] = trials[p] /\ date' = date
      BY <1>2 DEF PlanInv
    <3>2. \A name : <<name, p>> \in subLapses => <<name, p>> \in subLapses'
      OBVIOUS
    <3> QED BY <3>1, <3>2, OtherSub
  <2> QED BY <2>1
<1>5. OwnOK'
  <2>1. CASE o # Own
    <3>1. sub'[Own] = sub[Own]
      BY <1>2, <2>1, OwnIsOrg
    <3> QED BY <3>1 DEF PlanInv, OwnOK, B!Clear
  <2> QED BY <2>1
<1>6. WalletOK'
  BY DEF PlanInv, WalletOK, B!Clear
<1>7. ASSUME NEW x, PlanWorkOK(x), x.step = "mark" => x \in Marking PROVE PlanWorkOK(x)'
  <2>1. x.step = "mark" => x.day <= date /\ \A p \in x.orgs : sub[p] \in PlanRow /\ p \in B!Orgs
    BY <1>7 DEF PlanWorkOK, Marking
  <2>2. \A p \in B!Orgs : sub[p] \in PlanRow => sub'[p] \in PlanRow
    BY <1>2
  <2>3. x.step = "mark" => x.day <= date' /\ \A p \in x.orgs : sub'[p] \in PlanRow
    BY <2>1, <2>2
  <2> QED BY <1>7, <2>3 DEF PlanWorkOK, InWallet, Confirmed, B!Credits
<1>8. ASSUME NEW v \in Users, subWork'[v] # B!None PROVE PlanWorkOK(subWork[v])'
  <2>1. PICK x : x = subWork'[v]
    OBVIOUS
  <2>2. PlanWorkOK(x)
    BY <1>1, <1>8, <2>1 DEF PlanInv
  <2>3. x.step = "mark" => x \in Marking
    <3>1. x \in Editing \cup Buying \cup Marking \cup Spending
      BY <1>1, <1>8, <2>1 DEF PlanWork
    <3> QED BY <3>1 DEF Editing, Buying, Marking, Spending
  <2>4. PlanWorkOK(x)'
    BY <1>7, <2>2, <2>3
  <2> QED BY <2>1, <2>4 DEF PlanWorkOK
<1>9. PlanApart'
  <2>1. ~B!At(w, "activate")'
    BY <1>1 DEF B!At
  <2>2. \A v \in Users : B!At(v, "activate")' => v # w /\ B!At(v, "activate") /\ subWork'[v] = subWork[v]
    BY <1>1, <2>1 DEF B!At
  <2> QED BY <2>2 DEF PlanInv, PlanApart
<1> QED BY <1>3, <1>4, <1>5, <1>6, <1>8, <1>9 DEF PlanInv

\* What a request writes.
LEMMA PlanChanged ==
    ASSUME B!PlanAssumption, PlanTypes, NEW op \in {"trial", "upgrade", "downgrade", "free", "cancel"},
           NEW row \in PlanRow \cup {B!None}, ~B!Refused(op, row), NEW new, new = B!Changed(op, row)
    PROVE  /\ new \in PlanRow
           /\ op = "upgrade" => new.plan = "paid"
           /\ op = "upgrade" /\ row \in PlanRow => new.status = "active" /\ new.end = date + PeriodDays
           /\ new.status = "trialing" => ~B!TrialUsed(row) /\ op # "free" /\ B!TrialUsed(new)
           /\ op # "free" /\ B!TrialUsed(row) => B!TrialUsed(new)
<1>1. date \in Nat /\ date + PeriodDays \in Int /\ date + TrialDays \in Int /\ date + TrialDays # -1
  BY PlanNumbers DEF PlanTypes
<1>2. B!None \notin PlanRow
  BY NoneIsNoRow
<1>3. /\ B!Trial \in PlanRow /\ B!Trial.status = "trialing" /\ B!Trial.trialEnd = date + TrialDays /\ B!Trial.plan = "paid"
      /\ B!Free \in PlanRow /\ B!Free.status = "active"
  BY <1>1 DEF B!Trial, B!Free, PlanRow, B!Never
<1>4. \A chosen \in {"paid", "free"} : [B!Trial EXCEPT !.plan = chosen] \in PlanRow
          /\ [B!Trial EXCEPT !.plan = chosen].plan = chosen /\ [B!Trial EXCEPT !.plan = chosen].status = "trialing"
          /\ [B!Trial EXCEPT !.plan = chosen].trialEnd = date + TrialDays
  BY <1>3 DEF PlanRow
<1>5. row \in PlanRow => \A chosen \in {"paid", "free"} :
          /\ B!Renewed(row, chosen) \in PlanRow /\ B!Renewed(row, chosen).plan = chosen /\ B!Renewed(row, chosen).status = "active"
          /\ B!Renewed(row, chosen).end = date + PeriodDays /\ B!Renewed(row, chosen).trialEnd = row.trialEnd
  BY <1>1 DEF B!Renewed, PlanRow
<1>6. CASE op = "trial"
  <2>1. new = B!Trial /\ ~B!TrialUsed(row)
    BY <1>6 DEF B!Changed, B!Refused
  <2> QED BY <1>1, <1>2, <1>3, <1>6, <2>1 DEF B!TrialUsed, B!Never
<1>7. CASE op \in {"upgrade", "downgrade"} /\ row = B!None
  <2>1. PICK chosen \in {"paid", "free"} : chosen = IF op = "upgrade" THEN "paid" ELSE "free"
    OBVIOUS
  <2>2. new = [B!Trial EXCEPT !.plan = chosen]
    BY <1>7, <2>1 DEF B!Changed
  <2>3. ~B!TrialUsed(row)
    BY <1>7 DEF B!TrialUsed
  <2>4. new \in PlanRow /\ new.plan = chosen /\ new.status = "trialing" /\ new.trialEnd = date + TrialDays
    BY <1>4, <2>1, <2>2
  <2>5. B!TrialUsed(new)
    BY <1>1, <1>2, <2>4 DEF B!TrialUsed, B!Never
  <2> QED BY <1>2, <1>7, <2>1, <2>3, <2>4, <2>5
<1>8. CASE op \in {"upgrade", "downgrade"} /\ row # B!None
  <2>1. PICK chosen \in {"paid", "free"} : chosen = IF op = "upgrade" THEN "paid" ELSE "free"
    OBVIOUS
  <2>2. new = B!Renewed(row, chosen) /\ row \in PlanRow
    BY <1>8, <2>1 DEF B!Changed
  <2> QED BY <1>2, <1>5, <1>8, <2>1, <2>2 DEF B!TrialUsed, B!Never
<1>9. CASE op = "free"
  <2>1. new = B!Free
    BY <1>9 DEF B!Changed
  <2> QED BY <1>3, <1>9, <2>1
<1>10. CASE op = "cancel"
  <2>1. new = [row EXCEPT !.status = "canceled"] /\ row \in PlanRow
    BY <1>10 DEF B!Changed, B!Refused
  <2>2. new \in PlanRow /\ new.status = "canceled" /\ new.trialEnd = row.trialEnd
    BY <2>1 DEF PlanRow
  <2> QED BY <1>2, <1>10, <2>1, <2>2 DEF B!TrialUsed, B!Never
<1> QED BY <1>6, <1>7, <1>8, <1>9, <1>10

LEMMA FromNone == ASSUME NEW m, NEW n, m = 0, n = m + 1 PROVE n = 1
OBVIOUS

LEMMA SaveOK == ASSUME B!PlanAssumption, PlanInv, NEW w \in Users, B!Save(w) PROVE PlanInv'
<1>0. B!At(w, "save") /\ subWork[w] \in Editing
  BY WorkShape DEF B!Save, PlanInv
<1>1. PICK v \in Editing : v = subWork[w]
  BY <1>0
<1>2. PICK o \in B!Orgs : o = v.org
  BY DEF Editing
<1>3. PICK op \in {"trial", "upgrade", "downgrade", "free", "cancel"} : op = v.op
  BY DEF Editing
<1>4. PICK row \in PlanRow \cup {B!None} : row = v.row
  BY DEF Editing
<1>5. B!None \in PlanWork
  BY DEF PlanWork
<1>6. CASE B!Refused(op, row)
  <2>1. UNCHANGED <<date, sub, settled, ledger, link, total, trials, cover, renewals, subLapses>>
        /\ subWork' = [subWork EXCEPT ![w] = B!None]
    BY <1>1, <1>2, <1>3, <1>4, <1>6 DEF B!Save, B!Goto, B!rows
  <2> QED BY <1>5, <2>1, PlanBegins
<1>7. CASE ~B!Refused(op, row)
  <2>1. PICK new : new = B!Changed(op, row)
    OBVIOUS
  <2>2. /\ sub' = [sub EXCEPT ![o] = new]
        /\ trials' = IF new.status = "trialing" THEN [trials EXCEPT ![o] = @ + 1] ELSE trials
        /\ subLapses' = subLapses \cup B!Lapse(row # sub[o] /\ op # "free", "saved over", o)
                                  \cup B!Lapse(op = "free" /\ B!TrialUsed(sub[o]), "trial forgotten", o)
                                  \cup B!Lapse(op # "upgrade", "given up", o)
        /\ subWork' = [subWork EXCEPT ![w] = B!None]
        /\ UNCHANGED <<date, settled, ledger, link, total, cover, renewals>>
    BY <1>1, <1>2, <1>3, <1>4, <1>7, <2>1 DEF B!Save, B!Goto, B!rows
  <2>3. /\ new \in PlanRow
        /\ op = "upgrade" => new.plan = "paid"
        /\ op = "upgrade" /\ row \in PlanRow => new.status = "active" /\ new.end = date + PeriodDays
        /\ new.status = "trialing" => ~B!TrialUsed(row) /\ op # "free" /\ B!TrialUsed(new)
        /\ op # "free" /\ B!TrialUsed(row) => B!TrialUsed(new)
    BY <1>7, <2>1, PlanChanged DEF PlanInv
  <2>4. /\ subLapses \subseteq subLapses'
        /\ row # sub[o] /\ op # "free" => <<"saved over", o>> \in subLapses'
        /\ op = "free" /\ B!TrialUsed(sub[o]) => <<"trial forgotten", o>> \in subLapses'
        /\ op # "upgrade" => <<"given up", o>> \in subLapses'
    BY <2>2 DEF B!Lapse
  <2>5. /\ trials' \in [B!Orgs -> Nat] /\ \A p \in B!Orgs \ {o} : trials'[p] = trials[p]
        /\ trials[o] \in Nat /\ trials'[o] = IF new.status = "trialing" THEN trials[o] + 1 ELSE trials[o]
    <3>1. trials \in [B!Orgs -> Nat] /\ trials[o] \in Nat /\ trials[o] + 1 \in Nat
      BY DEF PlanInv, PlanTypes
    <3>2. CASE new.status = "trialing"
      <4>1. trials' = [trials EXCEPT ![o] = trials[o] + 1]
        BY <2>2, <3>2
      <4> QED BY <3>1, <3>2, <4>1
    <3>3. CASE new.status # "trialing"
      BY <2>2, <3>1, <3>3
    <3> QED BY <3>2, <3>3
  <2>6. sub'[o] = new /\ cover'[o] = cover[o] /\ date' = date
    BY <2>2 DEF PlanInv, PlanTypes
  <2>7. SubOK(o)
    BY DEF PlanInv
  <2>8. B!Clear(o, {"given up", "saved over", "expired blindly"})' /\ cover[o] >= date =>
            new.plan = "paid" /\ new.status = "active" /\ new.end >= cover[o]
    <3> SUFFICES ASSUME B!Clear(o, {"given up", "saved over", "expired blindly"})', cover[o] >= date
                 PROVE  new.plan = "paid" /\ new.status = "active" /\ new.end >= cover[o]
      OBVIOUS
    <3>1. op = "upgrade" /\ row = sub[o]
      BY <2>4 DEF B!Clear
    <3>2. B!Clear(o, {"given up", "saved over", "expired blindly"})
      BY <2>4, ClearBefore
    <3>3. row \in PlanRow /\ cover[o] <= date + PeriodDays
      BY <2>7, <3>1, <3>2 DEF SubOK
    <3> QED BY <2>3, <3>1, <3>3
  <2>9. B!Clear(o, {"trial forgotten", "saved over"})' => trials'[o] = 0 \/ (trials'[o] = 1 /\ B!TrialUsed(new))
    <3> SUFFICES ASSUME B!Clear(o, {"trial forgotten", "saved over"})'
                 PROVE  trials'[o] = 0 \/ (trials'[o] = 1 /\ B!TrialUsed(new))
      OBVIOUS
    <3>1. B!Clear(o, {"trial forgotten", "saved over"})
      BY <2>4, ClearBefore
    <3>2. trials[o] = 0 \/ (trials[o] = 1 /\ B!TrialUsed(sub[o]))
      BY <2>7, <3>1 DEF SubOK
    <3>3. (op # "free" => row = sub[o]) /\ (op = "free" => ~B!TrialUsed(sub[o]))
      BY <2>4 DEF B!Clear
    <3>4. CASE op = "free"
      BY <2>3, <2>5, <3>2, <3>3, <3>4
    <3>5. CASE op # "free"
      <4>1. CASE new.status = "trialing"
        <5>0. B!TrialUsed(new)
          BY <2>3, <4>1
        <5>1. trials[o] = 0
          BY <2>3, <3>2, <3>3, <3>5, <4>1
        <5>2. trials'[o] = trials[o] + 1
          BY <2>5, <4>1
        <5>3. trials'[o] = 1
          BY <5>1, <5>2, FromNone
        <5> QED BY <5>0, <5>3
      <4>2. CASE new.status # "trialing"
        <5>1. trials'[o] = trials[o] /\ (B!TrialUsed(sub[o]) => B!TrialUsed(new))
          BY <2>3, <2>5, <3>3, <3>5, <4>2
        <5> QED BY <3>2, <5>1
      <4> QED BY <4>1, <4>2
    <3> QED BY <3>4, <3>5
  <2>10. SubOK(o)'
    BY <2>3, <2>6, <2>7, <2>8, <2>9 DEF SubOK, B!TrialUsed
  <2>11. o = Own => OwnOK'
    <3>1. B!Clear(o, {"given up", "saved over"})' => op = "upgrade"
      BY <2>4 DEF B!Clear
    <3> QED BY <2>3, <2>6, <3>1 DEF OwnOK
  <2> QED BY <1>5, <2>2, <2>3, <2>4, <2>5, <2>10, <2>11, SubStep
<1> QED BY <1>6, <1>7

LEMMA DatesAreInt ==
    ASSUME B!PlanAssumption, PlanInv, NEW o \in B!Orgs PROVE cover[o] \in Int /\ date \in Int
<1>1. cover \in [B!Orgs -> Int] /\ date \in 0..Horizon /\ Horizon \in Nat
  BY PlanNumbers DEF PlanInv, PlanTypes
<1> QED BY <1>1

LEMMA BeforeAndAfter ==
    ASSUME NEW day \in Int, NEW now \in Int, NEW until \in Int, NEW end \in Int,
           day <= now, until >= now, end >= until, end < day
    PROVE  FALSE
OBVIOUS

LEMMA MarkOK == ASSUME B!PlanAssumption, PlanInv, NEW w \in Users, NEW o \in B!Orgs, B!Mark(w, o) PROVE PlanInv'
<1>0. B!At(w, "mark") /\ subWork[w] \in Marking /\ subWork[w].step = "mark" /\ PlanWorkOK(subWork[w])
  BY WorkShape DEF B!Mark, PlanInv, B!At
<1>1. PICK v \in Marking : v = subWork[w]
  BY <1>0
<1>2. PICK row : row = [sub[o] EXCEPT !.status = "past_due"]
  OBVIOUS
<1> DEFINE new == [v EXCEPT !.orgs = @ \ {o}]
<1>3. /\ o \in v.orgs /\ sub' = [sub EXCEPT ![o] = row]
      /\ subLapses' = subLapses \cup B!Lapse(o \notin B!Over(v.query, v.day), "expired blindly", o)
      /\ subWork' = [subWork EXCEPT ![w] = new]
      /\ UNCHANGED <<date, settled, ledger, link, total, cover, renewals, trials>>
  BY <1>1, <1>2 DEF B!Mark, B!Goto, B!rows, B!told
<1>4. v.day <= date /\ \A p \in v.orgs : sub[p] \in PlanRow
  BY <1>0, <1>1 DEF PlanWorkOK
<1>5. row \in PlanRow /\ row.plan = sub[o].plan /\ row.trialEnd = sub[o].trialEnd /\ sub[o] \in PlanRow
  BY <1>2, <1>3, <1>4 DEF PlanRow
<1>6. new \in PlanWork /\ new.step = "mark" /\ new.day = v.day /\ new.orgs \subseteq v.orgs
  <2>1. new \in Marking
    BY DEF Marking
  <2> QED BY <2>1 DEF Marking, PlanWork
<1> HIDE DEF new
<1>7. PlanWorkOK(new)
  BY <1>4, <1>6 DEF PlanWorkOK
<1>8. /\ subLapses \subseteq subLapses'
      /\ o \notin B!Over(v.query, v.day) => <<"expired blindly", o>> \in subLapses'
  BY <1>3 DEF B!Lapse
<1>9. sub'[o] = row /\ cover'[o] = cover[o] /\ trials'[o] = trials[o] /\ date' = date
  BY <1>3 DEF PlanInv, PlanTypes
<1>10. SubOK(o)
  BY DEF PlanInv
<1>11. ~(cover[o] >= date /\ B!Clear(o, {"given up", "saved over", "expired blindly"})')
  <2> SUFFICES ASSUME cover[o] >= date, B!Clear(o, {"given up", "saved over", "expired blindly"})' PROVE FALSE
    OBVIOUS
  <2>1. B!Clear(o, {"given up", "saved over", "expired blindly"})
    BY <1>8, ClearBefore
  <2>2. sub[o].status = "active" /\ sub[o].end >= cover[o]
    BY <1>10, <2>1 DEF SubOK
  <2>3. o \in B!Over(v.query, v.day)
    BY <1>8 DEF B!Clear
  <2>4. v.query # "trialing" /\ sub[o].end < v.day
    BY <2>2, <2>3 DEF B!Over
  <2>5. sub[o].end \in Int /\ cover[o] \in Int /\ date \in Int /\ v.day \in Int
    <3>1. sub[o].end \in Int
      BY <1>5 DEF PlanRow
    <3>2. cover[o] \in Int /\ date \in Int
      BY DatesAreInt
    <3>3. v.day \in Int
      BY DEF Marking
    <3> QED BY <3>1, <3>2, <3>3
  <2> QED BY <1>4, <2>2, <2>4, <2>5, BeforeAndAfter
<1>12. B!TrialUsed(row) <=> B!TrialUsed(sub[o])
  BY <1>5, NoneIsNoRow DEF B!TrialUsed
<1>13. B!Clear(o, {"trial forgotten", "saved over"})' => B!Clear(o, {"trial forgotten", "saved over"})
  BY <1>8, ClearBefore
<1>14. SubOK(o)'
  BY <1>9, <1>10, <1>11, <1>12, <1>13 DEF SubOK, B!TrialUsed
<1>15. o = Own => OwnOK'
  <2>1. B!Clear(o, {"given up", "saved over"})' => B!Clear(o, {"given up", "saved over"})
    BY <1>8, ClearBefore
  <2> QED BY <1>5, <1>9, <2>1 DEF OwnOK, PlanInv
<1>16. trials' \in [B!Orgs -> Nat] /\ \A p \in B!Orgs \ {o} : trials'[p] = trials[p]
  BY <1>3 DEF PlanInv, PlanTypes
<1> QED BY <1>3, <1>5, <1>6, <1>7, <1>8, <1>14, <1>15, <1>16, SubStep

LEMMA PlanTickOK == ASSUME B!PlanAssumption, PlanInv, B!Tick PROVE PlanInv'
<1>1. /\ date < Horizon /\ date' = date + 1
      /\ UNCHANGED <<sub, settled, ledger, link, total, trials, cover, renewals, subLapses, subWork>>
  BY DEF B!Tick, B!rows, B!told
<1>2. date \in Nat /\ date' \in 0..Horizon /\ date <= date'
  BY <1>1, PlanNumbers DEF PlanInv, PlanTypes
<1>3. PlanTypes'
  BY <1>1, <1>2 DEF PlanInv, PlanTypes
<1>4. ASSUME NEW o \in B!Orgs PROVE SubOK(o)'
  <2>1. SubOK(o) /\ cover[o] \in Int
    BY DEF PlanInv, PlanTypes
  <2>2. cover[o] <= date' + PeriodDays /\ (cover[o] >= date' => cover[o] >= date)
    <3>1. cover[o] <= date + PeriodDays
      BY <2>1 DEF SubOK
    <3>2. cover[o] \in Int /\ PeriodDays \in Int /\ date \in Int /\ date' = date + 1
      BY <1>1, <1>2, <2>1, PlanNumbers
    <3> HIDE <1>1, <1>2, <2>1
    <3> QED BY <3>1, <3>2
  <2> QED BY <1>1, <2>1, <2>2 DEF SubOK, B!Clear, B!TrialUsed
<1>5. OwnOK' /\ WalletOK' /\ PlanApart'
  BY <1>1 DEF PlanInv, OwnOK, WalletOK, PlanApart, B!Clear, B!At
<1>6. ASSUME NEW v \in Users, subWork'[v] # B!None PROVE PlanWorkOK(subWork[v])'
  <2>1. PlanWorkOK(subWork[v]) /\ subWork'[v] = subWork[v] /\ subWork[v] # B!None
    BY <1>1, <1>6 DEF PlanInv
  <2>2. subWork[v].step = "mark" => subWork[v].day <= date'
    <3>1. subWork[v].step = "mark" => subWork[v].day \in Int
      BY <2>1, WorkShape DEF PlanInv, B!At, Marking
    <3> QED BY <1>2, <2>1, <3>1 DEF PlanWorkOK
  <2> QED BY <1>1, <2>1, <2>2 DEF PlanWorkOK
<1> QED BY <1>3, <1>4, <1>5, <1>6 DEF PlanInv

LEMMA PlanDates ==
    ASSUME B!PlanAssumption, PlanTypes PROVE date \in Nat /\ date \in Int /\ date + PeriodDays \in Int
<1>1. date \in 0..Horizon /\ Horizon \in Nat /\ PeriodDays \in Nat
  BY PlanNumbers DEF PlanTypes
<1> QED BY <1>1

LEMMA OneMore == ASSUME NEW c \in Nat, NEW n \in Nat PROVE c * (n + 1) = c * n + c /\ 2 * c * (n + 1) = 2 * c * n + 2 * c
OBVIOUS

LEMMA NatSums == ASSUME NEW c \in Nat PROVE \A n \in Nat : n + c \in Nat /\ n + 2 * c \in Nat
OBVIOUS

\* A payment is settled, once.
LEMMA EarnWallet ==
    ASSUME B!PlanAssumption, PlanTypes, WalletOK, NEW o \in Clients, NEW r \in Payments, NEW earned \in Nat,
           \A s \in settled : s.reference # r,
           settled' = settled \cup {[reference |-> r, org |-> o]}, ledger' = ledger \cup {B!Earned(r)},
           link' = [link EXCEPT ![o] = earned + Commission], total' = total + 2 * Commission, renewals' = renewals,
           \A name \in {"earnings lost", "applied twice", "renewed again"} : \A p :
              <<name, p>> \in subLapses => <<name, p>> \in subLapses',
           link[o] # earned => <<"earnings lost", o>> \in subLapses'
    PROVE  /\ WalletOK' /\ InWallet(ledger') = InWallet(ledger) /\ B!Credits(ledger') = B!Credits(ledger)
           /\ settled' \subseteq [reference : Payments, org : Clients] /\ IsFiniteSet(settled')
           /\ ledger' \subseteq WalletRow /\ IsFiniteSet(ledger') /\ link' \in [Clients -> Nat] /\ total' \in Nat
<1>1. PICK s0 : s0 = [reference |-> r, org |-> o]
  OBVIOUS
<1>2. PICK new : new = B!Earned(r)
  OBVIOUS
<1>3. /\ new \in PaymentRow /\ new.kind = "payment" /\ new.status = "pending" /\ new.reference = r
      /\ new \in WalletRow
  <2>1. date \in Int
    BY PlanDates
  <2> QED BY <1>2, <2>1 DEF B!Earned, PaymentRow, WalletRow
<1>4. s0 \in [reference : Payments, org : Clients] /\ s0.reference = r /\ s0.org = o /\ s0 \notin settled
      /\ settled' = settled \cup {s0}
  BY <1>1
<1>5. settled' \subseteq [reference : Payments, org : Clients] /\ IsFiniteSet(settled')
      /\ Cardinality(settled') = Cardinality(settled) + 1 /\ Cardinality(settled) \in Nat
  <2>1. settled \subseteq [reference : Payments, org : Clients] /\ IsFiniteSet(settled)
    BY DEF PlanTypes
  <2>2. IsFiniteSet(settled \cup {s0}) /\ Cardinality(settled \cup {s0}) = Cardinality(settled) + 1
    BY <1>4, <2>1, FS_AddElement
  <2>3. Cardinality(settled) \in Nat
    BY <2>1, FS_CardinalityType
  <2> QED BY <1>4, <2>1, <2>2, <2>3
<1>6. ledger' \subseteq WalletRow /\ IsFiniteSet(ledger') /\ ledger' = ledger \cup {new}
  BY <1>2, <1>3, FS_AddElement DEF PlanTypes
<1>7. B!Credits(ledger') = B!Credits(ledger) /\ Confirmed(ledger') = Confirmed(ledger)
  BY <1>3, <1>6 DEF B!Credits, Confirmed
<1>8. Commission \in Nat /\ link[o] \in Nat /\ total \in Nat /\ earned + Commission \in Nat /\ total + 2 * Commission \in Nat
  <2>1. Commission \in Nat /\ link \in [Clients -> Nat] /\ total \in Nat
    BY PlanNumbers DEF PlanTypes
  <2>2. link[o] \in Nat
    BY <2>1
  <2>3. earned + Commission \in Nat /\ total + 2 * Commission \in Nat
    BY <2>1, NatSums
  <2> QED BY <2>1, <2>2, <2>3
<1>9. link' \in [Clients -> Nat] /\ link'[o] = earned + Commission /\ \A p \in Clients \ {o} : link'[p] = link[p]
  BY <1>8 DEF PlanTypes
<1>10. {row.reference : row \in ledger' \ B!Credits(ledger')} = {s.reference : s \in settled'}
  <2>1. new \notin B!Credits(ledger)
    BY <1>3 DEF B!Credits
  <2>2. ledger' \ B!Credits(ledger') = (ledger \ B!Credits(ledger)) \cup {new}
    BY <1>6, <1>7, <2>1
  <2>3. {row.reference : row \in ledger' \ B!Credits(ledger')} = {row.reference : row \in ledger \ B!Credits(ledger)} \cup {r}
    BY <1>3, <2>2
  <2>4. {s.reference : s \in settled'} = {s.reference : s \in settled} \cup {r}
    BY <1>4
  <2> QED BY <2>3, <2>4 DEF WalletOK
<1>11. total' = 2 * Commission * Cardinality(settled')
  <2>1. total = 2 * Commission * Cardinality(settled)
    BY DEF WalletOK
  <2>2. 2 * Commission * (Cardinality(settled) + 1) = 2 * Commission * Cardinality(settled) + 2 * Commission
    BY <1>5, <1>8, OneMore
  <2> QED BY <1>5, <2>1, <2>2
<1>12. ASSUME NEW p \in Clients, B!Clear(p, {"earnings lost"})'
       PROVE  link'[p] = Commission * Cardinality({s \in settled' : s.org = p})
  <2>1. B!Clear(p, {"earnings lost"})
    BY <1>12 DEF B!Clear
  <2>2. link[p] = Commission * Cardinality({s \in settled : s.org = p})
    BY <2>1 DEF WalletOK
  <2>3. CASE p = o
    <3>1. link[o] = earned
      BY <1>12, <2>3 DEF B!Clear
    <3>2. PICK mine : mine = {s \in settled : s.org = o}
      OBVIOUS
    <3>3. {s \in settled' : s.org = o} = mine \cup {s0} /\ s0 \notin mine
      BY <1>4, <3>2
    <3>4. IsFiniteSet(mine)
      BY <3>2, FS_Subset DEF PlanTypes
    <3>5. Cardinality(mine \cup {s0}) = Cardinality(mine) + 1 /\ Cardinality(mine) \in Nat
      BY <3>3, <3>4, FS_AddElement, FS_CardinalityType
    <3>6. Commission * (Cardinality(mine) + 1) = Commission * Cardinality(mine) + Commission
      BY <1>8, <3>5, OneMore
    <3>7. link[o] = Commission * Cardinality(mine)
      BY <2>2, <2>3, <3>2
    <3>8. link'[o] = Commission * Cardinality(mine) + Commission
      BY <1>9, <3>1, <3>7
    <3>9. link'[o] = Commission * Cardinality({s \in settled' : s.org = o})
      BY <3>3, <3>5, <3>6, <3>8
    <3> QED BY <2>3, <3>9
  <2>4. CASE p # o
    <3>1. {s \in settled' : s.org = p} = {s \in settled : s.org = p}
      BY <1>4, <2>4
    <3> QED BY <1>9, <2>2, <2>4, <3>1
  <2> QED BY <2>3, <2>4
<1>13. WalletOK'
  <2>1. B!Clear(Own, {"applied twice"})' => B!Clear(Own, {"applied twice"})
    BY DEF B!Clear
  <2>2. B!Clear(Own, {"renewed again"})' => B!Clear(Own, {"renewed again"})
    BY DEF B!Clear
  <2>3. B!Clear(Own, {"applied twice"})' => InWallet(ledger') >= 0
    BY <1>7, <2>1 DEF WalletOK, InWallet
  <2>4. B!Clear(Own, {"renewed again"})' => -Sum(AmountOf, B!Credits(ledger')) >= Price * renewals'
    BY <1>7, <2>2 DEF WalletOK
  <2>5. \A row \in B!Credits(ledger') : row.reference > -Cardinality(B!Credits(ledger'))
    BY <1>7 DEF WalletOK
  <2>6. AmountOf' = AmountOf
    BY DEF AmountOf, WalletRow, PaymentRow, CreditRow
  <2> QED BY <1>10, <1>11, <1>12, <2>3, <2>4, <2>5, <2>6 DEF WalletOK, InWallet
<1> QED BY <1>5, <1>6, <1>7, <1>8, <1>9, <1>13 DEF InWallet

LEMMA ActivateOK == ASSUME B!PlanAssumption, PlanInv, NEW w \in Users, B!Activate(w) PROVE PlanInv'
<1>0. subWork[w] # B!None /\ subWork[w].step = "activate" /\ subWork[w] \in Buying /\ PlanWorkOK(subWork[w])
  BY WorkShape DEF B!Activate, B!At, PlanInv
<1>1. PICK v \in Buying : v = subWork[w]
  BY <1>0
<1>2. PICK o \in Clients : o = v.org
  BY DEF Buying
<1>3. PICK row : row = B!Renewed(IF sub[o] = B!None THEN B!Paid ELSE sub[o], "paid")
  OBVIOUS
<1>4. o \in B!Orgs
  BY OwnIsOrg
<1>5. /\ sub' = [sub EXCEPT ![o] = row]
      /\ settled' = settled \cup {[reference |-> v.reference, org |-> o]}
      /\ ledger' = ledger \cup {B!Earned(v.reference)}
      /\ link' = [link EXCEPT ![o] = v.earned + Commission] /\ total' = total + 2 * Commission
      /\ cover' = [cover EXCEPT ![o] = date + PeriodDays]
      /\ subLapses' = (subLapses \ {<<"given up", o>>, <<"expired blindly", o>>})
                         \cup B!Lapse(link[o] # v.earned, "earnings lost", o)
      /\ subWork' = [subWork EXCEPT ![w] = B!None]
      /\ UNCHANGED <<date, trials, renewals>>
  BY <1>1, <1>2, <1>3, <1>4 DEF B!Activate, B!Goto, PlanInv, PlanTypes
<1>6. /\ row \in PlanRow /\ row.plan = "paid" /\ row.status = "active" /\ row.end = date + PeriodDays
      /\ B!TrialUsed(sub[o]) => B!TrialUsed(row)
  <2>1. date \in Int /\ date + PeriodDays \in Int
    BY PlanNumbers DEF PlanInv, PlanTypes
  <2>2. B!Paid \in PlanRow
    BY PlanNumbers DEF B!Paid, PlanRow, B!Never
  <2>3. PICK base \in PlanRow : /\ base = IF sub[o] = B!None THEN B!Paid ELSE sub[o]
                                /\ B!TrialUsed(sub[o]) => base.trialEnd # -1
    <3>1. sub[o] \in PlanRow \cup {B!None}
      BY <1>4 DEF PlanInv, PlanTypes
    <3> QED BY <2>2, <3>1 DEF B!TrialUsed, B!Never
  <2>4. /\ row \in PlanRow /\ row.plan = "paid" /\ row.status = "active" /\ row.end = date + PeriodDays
        /\ row.trialEnd = base.trialEnd
    BY <1>3, <2>1, <2>3 DEF B!Renewed, PlanRow
  <2>5. B!TrialUsed(sub[o]) => B!TrialUsed(row)
    BY <2>3, <2>4, NoneIsNoRow DEF B!TrialUsed, B!Never
  <2> QED BY <2>4, <2>5
<1>7. /\ \A name, p : <<name, p>> \in subLapses /\ (p # o \/ name \notin {"given up", "expired blindly"}) =>
            <<name, p>> \in subLapses'
      /\ link[o] # v.earned => <<"earnings lost", o>> \in subLapses'
  BY <1>5 DEF B!Lapse
<1>8. v.reference \in Payments /\ v.earned \in Nat /\ \A s \in settled : s.reference # v.reference
  BY <1>0, <1>1 DEF Buying, PlanWorkOK
<1>9. /\ WalletOK' /\ InWallet(ledger') = InWallet(ledger) /\ B!Credits(ledger') = B!Credits(ledger)
      /\ settled' \subseteq [reference : Payments, org : Clients] /\ IsFiniteSet(settled')
      /\ ledger' \subseteq WalletRow /\ IsFiniteSet(ledger') /\ link' \in [Clients -> Nat] /\ total' \in Nat
  <2>1. \A name \in {"earnings lost", "applied twice", "renewed again"} : \A p :
              <<name, p>> \in subLapses => <<name, p>> \in subLapses'
    BY <1>7
  <2>2. renewals' = renewals
    BY <1>5
  <2>3. WalletOK /\ PlanTypes
    BY DEF PlanInv
  <2> QED BY <1>5, <1>7, <1>8, <2>1, <2>2, <2>3, EarnWallet
<1>10. /\ sub'[o] = row /\ \A p \in B!Orgs \ {o} : sub'[p] = sub[p]
       /\ sub' \in [B!Orgs -> PlanRow \cup {B!None}]
  BY <1>4, <1>5, <1>6 DEF PlanInv, PlanTypes
<1>11. /\ cover'[o] = date + PeriodDays /\ \A p \in B!Orgs \ {o} : cover'[p] = cover[p]
       /\ cover' \in [B!Orgs -> Int]
  <2>1. date + PeriodDays \in Int
    BY PlanNumbers DEF PlanInv, PlanTypes
  <2> QED BY <1>4, <1>5, <2>1 DEF PlanInv, PlanTypes
<1>12. subWork'[w] = B!None /\ (\A t \in Users \ {w} : subWork'[t] = subWork[t]) /\ subWork' \in [Users -> PlanWork]
  BY <1>5 DEF PlanInv, PlanTypes, PlanWork
<1>13. PlanTypes'
  <2>1. date' = date /\ trials' = trials /\ renewals' = renewals
    BY <1>5
  <2>2. date \in 0..Horizon /\ trials \in [B!Orgs -> Nat] /\ renewals \in Nat
    BY DEF PlanInv, PlanTypes
  <2> QED BY <1>9, <1>10, <1>11, <1>12, <2>1, <2>2 DEF PlanTypes
<1>14. SubOK(o)'
  <2>1. cover'[o] <= date' + PeriodDays /\ row.end >= cover'[o]
    <3>1. date + PeriodDays \in Int /\ date' = date
      BY <1>5, PlanDates DEF PlanInv
    <3> QED BY <1>6, <1>11, <3>1
  <2>2. B!Clear(o, {"trial forgotten", "saved over"})' => B!Clear(o, {"trial forgotten", "saved over"})
    BY <1>7 DEF B!Clear
  <2>3. SubOK(o) /\ trials' = trials
    BY <1>4, <1>5 DEF PlanInv
  <2>4. B!Clear(o, {"trial forgotten", "saved over"})' => trials'[o] = 0 \/ (trials'[o] = 1 /\ B!TrialUsed(row))
    BY <1>6, <2>2, <2>3 DEF SubOK
  <2> QED BY <1>6, <1>10, <2>1, <2>4 DEF SubOK, B!TrialUsed
<1>15. ASSUME NEW p \in B!Orgs \ {o} PROVE SubOK(p)'
  <2>1. SubOK(p) /\ sub'[p] = sub[p] /\ cover'[p] = cover[p] /\ trials'[p] = trials[p] /\ date' = date
    BY <1>5, <1>10, <1>11 DEF PlanInv
  <2>2. \A name : <<name, p>> \in subLapses => <<name, p>> \in subLapses'
    BY <1>7
  <2> QED BY <2>1, <2>2, OtherSub
<1>16. OwnOK'
  <2>1. CASE o = Own
    BY <1>6, <1>10, <2>1 DEF OwnOK
  <2>2. CASE o # Own
    <3>1. sub'[Own] = sub[Own]
      BY <1>10, <2>2, OwnIsOrg
    <3>2. B!Clear(Own, {"given up", "saved over"})' => B!Clear(Own, {"given up", "saved over"})
      BY <1>7, <2>2 DEF B!Clear
    <3> QED BY <3>1, <3>2 DEF OwnOK, PlanInv
  <2> QED BY <2>1, <2>2
<1>17. ASSUME NEW t \in Users, subWork'[t] # B!None PROVE PlanWorkOK(subWork[t])'
  <2>1. t # w /\ subWork'[t] = subWork[t] /\ PlanWorkOK(subWork[t]) /\ subWork[t] # B!None
    BY <1>12, <1>17 DEF PlanInv
  <2>2. subWork[t].step = "activate" => \A s \in settled' : s.reference # subWork[t].reference
    <3> SUFFICES ASSUME subWork[t].step = "activate", NEW s \in settled' PROVE s.reference # subWork[t].reference
      OBVIOUS
    <3>1. s \in settled \/ s = [reference |-> v.reference, org |-> o]
      BY <1>5
    <3>2. subWork[t].reference # v.reference
      BY <1>0, <1>1, <2>1 DEF PlanInv, PlanApart, B!At
    <3> QED BY <2>1, <3>1, <3>2 DEF PlanWorkOK
  <2>3. subWork[t].step = "mark" => subWork[t].day <= date' /\ \A p \in subWork[t].orgs : sub'[p] \in PlanRow
    <3> SUFFICES ASSUME subWork[t].step = "mark" PROVE subWork[t].day <= date' /\ \A p \in subWork[t].orgs : sub'[p] \in PlanRow
      OBVIOUS
    <3>1. subWork[t] \in Marking
      BY <2>1, WorkShape DEF PlanInv, B!At
    <3>2. subWork[t].orgs \subseteq B!Orgs
      BY <3>1 DEF Marking
    <3> QED BY <1>5, <1>6, <1>10, <2>1, <3>2 DEF PlanWorkOK
  <2>4. InWallet(ledger)' = InWallet(ledger) /\ B!Credits(ledger)' = B!Credits(ledger)
    BY <1>9 DEF InWallet, AmountOf, WalletRow, PaymentRow, CreditRow, Confirmed, B!Credits
  <2> QED BY <2>1, <2>2, <2>3, <2>4 DEF PlanWorkOK
<1>18. PlanApart'
  <2>1. \A t \in Users : B!At(t, "activate")' => t # w /\ B!At(t, "activate") /\ subWork'[t] = subWork[t]
    BY <1>12 DEF B!At
  <2> QED BY <2>1 DEF PlanInv, PlanApart
<1> QED BY <1>9, <1>13, <1>14, <1>15, <1>16, <1>17, <1>18 DEF PlanInv

\* What is confirmed stays what it was, and more of it counts.
LEMMA ConfirmedRow ==
    ASSUME NEW row \in WalletRow, NEW new, new = (IF row.since < date THEN [row EXCEPT !.status = "confirmed"] ELSE row)
    PROVE  /\ new \in WalletRow /\ new.kind = row.kind /\ new.reference = row.reference
           /\ row.status = "confirmed" => new = row
           /\ row.kind = "credit" => row.status = "confirmed"
BY DEF WalletRow, PaymentRow, CreditRow

LEMMA ConfirmWallet ==
    ASSUME B!PlanAssumption, PlanTypes, WalletOK,
           ledger' = {IF row.since < date THEN [row EXCEPT !.status = "confirmed"] ELSE row : row \in ledger},
           UNCHANGED <<settled, link, total, renewals, subLapses>>
    PROVE  /\ WalletOK' /\ InWallet(ledger') >= InWallet(ledger) /\ B!Credits(ledger') = B!Credits(ledger)
           /\ ledger' \subseteq WalletRow /\ IsFiniteSet(ledger')
<1> DEFINE f == [row \in ledger |-> IF row.since < date THEN [row EXCEPT !.status = "confirmed"] ELSE row]
<1>1. ledger \in SUBSET WalletRow /\ IsFiniteSet(ledger)
  BY DEF PlanTypes
<1>2. \A row \in ledger : /\ f[row] \in WalletRow /\ f[row].kind = row.kind /\ f[row].reference = row.reference
                          /\ row.status = "confirmed" => f[row] = row
                          /\ row.kind = "credit" => row.status = "confirmed"
  BY <1>1, ConfirmedRow
<1>3. ledger' = {f[row] : row \in ledger}
  OBVIOUS
<1> HIDE DEF f
<1>4. ledger' \in SUBSET WalletRow /\ IsFiniteSet(ledger')
  <2>1. DOMAIN f = ledger
    BY DEF f
  <2>2. f \in [ledger -> ledger']
    BY <1>3, <2>1 DEF f
  <2>3. f \in Surjection(ledger, ledger')
    BY <1>3, <2>2 DEF Surjection
  <2>4. IsFiniteSet(ledger')
    BY <1>1, <2>3, FS_Surjection
  <2> QED BY <1>2, <1>3, <2>4
<1>5. B!Credits(ledger') = B!Credits(ledger)
  BY <1>2, <1>3 DEF B!Credits
<1>6. Confirmed(ledger) \subseteq Confirmed(ledger')
  BY <1>2, <1>3 DEF Confirmed
<1>7. \A row \in Confirmed(ledger') \ Confirmed(ledger) : row.kind # "credit"
  BY <1>5 DEF Confirmed, B!Credits
<1>8. InWallet(ledger') >= InWallet(ledger)
  <2>1. \A row \in Confirmed(ledger') : AmountOf[row] = row.amount /\ AmountOf[row] \in Int
    BY <1>4, WalletAmounts
  <2>2. \A row \in Confirmed(ledger') \ Confirmed(ledger) : AmountOf[row] >= 0
    BY <1>4, <1>7, WalletAmounts
  <2>3. IsFiniteSet(Confirmed(ledger'))
    BY <1>4, WalletAmounts
  <2> QED BY <1>6, <2>1, <2>2, <2>3, SumMore DEF InWallet
<1>9. {row.reference : row \in ledger' \ B!Credits(ledger')} = {row.reference : row \in ledger \ B!Credits(ledger)}
  BY <1>2, <1>3 DEF B!Credits
<1>10. InWallet(ledger) \in Int /\ InWallet(ledger') \in Int
  BY <1>1, <1>4, WalletAmounts
<1>11. WalletOK'
  <2>1. \A o, names : B!Clear(o, names)' <=> B!Clear(o, names)
    BY DEF B!Clear
  <2>2. B!Clear(Own, {"applied twice"})' => InWallet(ledger') >= 0
    <3>1. B!Clear(Own, {"applied twice"})' => InWallet(ledger) >= 0
      BY <2>1 DEF WalletOK
    <3>2. InWallet(ledger) >= 0 => InWallet(ledger') >= 0
      <4> QED BY <1>8, <1>10
    <3> QED BY <3>1, <3>2
  <2>3. InWallet(ledger)' = InWallet(ledger') /\ B!Credits(ledger)' = B!Credits(ledger') /\ AmountOf' = AmountOf
    BY DEF InWallet, B!Credits, AmountOf, WalletRow, PaymentRow, CreditRow, Confirmed
  <2> QED BY <1>5, <1>9, <2>1, <2>2, <2>3 DEF WalletOK
<1> QED BY <1>4, <1>5, <1>8, <1>11

LEMMA Enlarged == ASSUME NEW a \in Int, NEW b \in Int, NEW c \in Int, a <= b, c >= b PROVE a <= c
OBVIOUS

LEMMA PlanConfirmOK == ASSUME B!PlanAssumption, PlanInv, B!Confirm PROVE PlanInv'
<1>1. /\ ledger' = {IF row.since < date THEN [row EXCEPT !.status = "confirmed"] ELSE row : row \in ledger}
      /\ UNCHANGED <<date, sub, settled, link, total, trials, cover, renewals, subLapses, subWork>>
  BY DEF B!Confirm, B!told
<1>2. /\ WalletOK' /\ InWallet(ledger') >= InWallet(ledger) /\ B!Credits(ledger') = B!Credits(ledger)
      /\ ledger' \subseteq WalletRow /\ IsFiniteSet(ledger')
  BY <1>1, ConfirmWallet DEF PlanInv
<1>3. PlanTypes'
  BY <1>1, <1>2 DEF PlanInv, PlanTypes
<1>4. (\A o \in B!Orgs : SubOK(o)') /\ OwnOK' /\ PlanApart'
  BY <1>1 DEF PlanInv, SubOK, OwnOK, PlanApart, B!Clear, B!At
<1>5. InWallet(ledger) \in Int /\ InWallet(ledger') \in Int
  BY <1>2, LedgerRows, WalletAmounts DEF PlanInv
<1>6. ASSUME NEW w \in Users, subWork'[w] # B!None PROVE PlanWorkOK(subWork[w])'
  <2>1. subWork'[w] = subWork[w] /\ PlanWorkOK(subWork[w]) /\ subWork[w] # B!None
    BY <1>1, <1>6 DEF PlanInv
  <2>2. subWork[w].step = "apply" /\ B!Credits(ledger') = {} => subWork[w].amount <= InWallet(ledger')
    <3> SUFFICES ASSUME subWork[w].step = "apply", B!Credits(ledger') = {} PROVE subWork[w].amount <= InWallet(ledger')
      OBVIOUS
    <3>1. subWork[w].amount \in Int
      BY <2>1, WorkShape DEF PlanInv, B!At, Spending
    <3>2. subWork[w].amount <= InWallet(ledger)
      BY <1>2, <2>1 DEF PlanWorkOK
    <3> QED BY <1>2, <1>5, <3>1, <3>2, Enlarged
  <2>3. InWallet(ledger)' = InWallet(ledger') /\ B!Credits(ledger)' = B!Credits(ledger')
    BY DEF InWallet, B!Credits, AmountOf, WalletRow, PaymentRow, CreditRow, Confirmed
  <2> QED BY <1>1, <2>1, <2>2, <2>3 DEF PlanWorkOK
<1> QED BY <1>2, <1>3, <1>4, <1>6 DEF PlanInv

LEMMA Renewals == ASSUME NEW p \in Nat, NEW n \in Nat PROVE p * (n + 1) = p * n + p /\ p * n \in Int
OBVIOUS
LEMMA WholeSums == ASSUME NEW a \in Int, NEW b \in Nat PROVE a + b \in Int
OBVIOUS
LEMMA SpendMore ==
    ASSUME NEW sum \in Int, NEW after \in Int, NEW spent \in Nat, NEW owed \in Int, NEW new \in Int, NEW price \in Nat,
           after = -spent + sum, -sum >= owed, new = owed \/ (new = owed + price /\ spent >= price)
    PROVE  -after >= new
OBVIOUS
LEMMA SpendLess ==
    ASSUME NEW inside \in Int, NEW after \in Int, NEW spent \in Nat, after = -spent + inside, spent <= inside
    PROVE  after >= 0
OBVIOUS
LEMMA Opposite == ASSUME NEW n \in Nat PROVE -n \in Int /\ ~(-n > -n)
OBVIOUS
LEMMA NextNumber ==
    ASSUME NEW n \in Nat, NEW m \in Int, m > -n \/ m = -n PROVE m > -(n + 1)
OBVIOUS

LEMMA CreditFields ==
    ASSUME NEW a \in Int, NEW b \in Int, NEW day \in Int, NEW row,
           row = [kind |-> "credit", reference |-> a, amount |-> b, status |-> "confirmed", since |-> day]
    PROVE  row \in CreditRow /\ row.kind = "credit" /\ row.reference = a /\ row.amount = b /\ row.status = "confirmed"
BY DEF CreditRow

LEMMA NewCredit ==
    ASSUME B!PlanAssumption, PlanTypes, NEW spent \in Nat, NEW n \in Nat, NEW row,
           row = [kind |-> "credit", reference |-> -n, amount |-> -spent, status |-> "confirmed", since |-> date]
    PROVE  /\ row \in CreditRow /\ row \in WalletRow /\ row.kind = "credit" /\ row.reference = -n /\ row.amount = -spent
           /\ row.status = "confirmed"
<1>1. PICK a \in Int : a = -n
  BY Opposite
<1>2. PICK b \in Int : b = -spent
  BY Opposite
<1>3. PICK day \in Int : day = date
  BY PlanDates
<1>4. row = [kind |-> "credit", reference |-> a, amount |-> b, status |-> "confirmed", since |-> day]
  BY <1>1, <1>2, <1>3
<1>5. row \in CreditRow /\ row.kind = "credit" /\ row.reference = a /\ row.amount = b /\ row.status = "confirmed"
  BY <1>4, CreditFields
<1> QED BY <1>1, <1>2, <1>5 DEF WalletRow

\* Credit is spent, or a request that was answered is repeated.
LEMMA SpendWallet ==
    ASSUME B!PlanAssumption, PlanTypes, WalletOK, NEW spent \in Nat, NEW row,
           row = [kind |-> "credit", reference |-> -Cardinality(B!Credits(ledger)), amount |-> -spent,
                  status |-> "confirmed", since |-> date],
           ledger' = (IF spent = 0 THEN ledger ELSE ledger \cup {row}),
           UNCHANGED <<settled, link, total>>, subLapses \subseteq subLapses',
           spent = 0 => <<"renewed again", Own>> \in subLapses',
           spent # 0 /\ B!Credits(ledger) # {} => <<"applied twice", Own>> \in subLapses',
           B!Credits(ledger) = {} => spent <= InWallet(ledger),
           renewals' = renewals \/ (renewals' = renewals + 1 /\ (spent = 0 \/ spent >= Price))
    PROVE  /\ WalletOK' /\ ledger' \subseteq WalletRow /\ IsFiniteSet(ledger')
           /\ B!Credits(ledger') = {} => ledger' = ledger
<1>1. ledger \in SUBSET WalletRow /\ IsFiniteSet(ledger)
  BY DEF PlanTypes
<1>2. PICK n \in Nat : n = Cardinality(B!Credits(ledger))
  BY <1>1, WalletAmounts
<1>3. row \in CreditRow /\ row \in WalletRow /\ row.kind = "credit" /\ row.reference = -n /\ row.amount = -spent
      /\ row.status = "confirmed"
  BY <1>2, NewCredit
<1>4. row \notin ledger
  <2>1. row \in ledger => row \in B!Credits(ledger)
    BY <1>3 DEF B!Credits
  <2>2. row \in B!Credits(ledger) => row.reference > -n
    BY <1>2 DEF WalletOK
  <2>3. ~(-n > -n)
    BY Opposite
  <2> QED BY <1>3, <2>1, <2>2, <2>3
<1>5. /\ B!Clear(Own, {"applied twice"})' => B!Clear(Own, {"applied twice"})
      /\ B!Clear(Own, {"renewed again"})' => B!Clear(Own, {"renewed again"}) /\ spent # 0
      /\ \A o \in Clients : B!Clear(o, {"earnings lost"})' => B!Clear(o, {"earnings lost"})
      /\ B!Clear(Own, {"applied twice"})' => spent = 0 \/ B!Credits(ledger) = {}
  BY DEF B!Clear
<1>6. InWallet(ledger)' = InWallet(ledger') /\ B!Credits(ledger)' = B!Credits(ledger') /\ AmountOf' = AmountOf
  BY DEF InWallet, B!Credits, AmountOf, WalletRow, PaymentRow, CreditRow, Confirmed
<1>7. CASE spent = 0
  <2>1. ledger' = ledger
    BY <1>7
  <2>2. ~B!Clear(Own, {"renewed again"})'
    BY <1>5, <1>7
  <2> QED BY <1>1, <1>5, <1>6, <2>1, <2>2 DEF WalletOK
<1>8. CASE spent # 0
  <2>1. ledger' = ledger \cup {row}
    BY <1>8
  <2>2. ledger' \in SUBSET WalletRow /\ IsFiniteSet(ledger')
    <3>1. IsFiniteSet(ledger \cup {row})
      BY <1>1, FS_AddElement
    <3>2. ledger \cup {row} \in SUBSET WalletRow
      BY <1>1, <1>3
    <3> QED BY <2>1, <3>1, <3>2
  <2>3. B!Credits(ledger') = B!Credits(ledger) \cup {row} /\ Confirmed(ledger') = Confirmed(ledger) \cup {row}
        /\ row \notin B!Credits(ledger) /\ row \notin Confirmed(ledger)
    BY <1>3, <1>4, <2>1 DEF B!Credits, Confirmed
  <2>4. /\ \A x \in WalletRow : AmountOf[x] \in Int
        /\ AmountOf[row] = -spent /\ IsFiniteSet(Confirmed(ledger)) /\ IsFiniteSet(B!Credits(ledger))
        /\ Confirmed(ledger) \subseteq WalletRow /\ B!Credits(ledger) \subseteq WalletRow
        /\ InWallet(ledger) \in Int /\ InWallet(ledger') \in Int
        /\ Sum(AmountOf, B!Credits(ledger)) \in Int /\ Sum(AmountOf, B!Credits(ledger')) \in Int
    BY <1>1, <1>3, <2>2, WalletAmounts
  <2>5. InWallet(ledger') = -spent + InWallet(ledger)
    <3>1. \A x \in Confirmed(ledger) \cup {row} : AmountOf[x] \in Int
      BY <1>3, <2>4
    <3>2. Sum(AmountOf, Confirmed(ledger) \cup {row}) = AmountOf[row] + Sum(AmountOf, Confirmed(ledger))
      BY <2>3, <2>4, <3>1, SumAdd
    <3> QED BY <2>3, <2>4, <3>2 DEF InWallet
  <2>6. Sum(AmountOf, B!Credits(ledger')) = -spent + Sum(AmountOf, B!Credits(ledger))
    <3>1. \A x \in B!Credits(ledger) \cup {row} : AmountOf[x] \in Int
      BY <1>3, <2>4
    <3>2. Sum(AmountOf, B!Credits(ledger) \cup {row}) = AmountOf[row] + Sum(AmountOf, B!Credits(ledger))
      BY <2>3, <2>4, <3>1, SumAdd
    <3> QED BY <2>3, <2>4, <3>2
  <2>7. B!Clear(Own, {"applied twice"})' => InWallet(ledger') >= 0
    <3> SUFFICES ASSUME B!Clear(Own, {"applied twice"})' PROVE InWallet(ledger') >= 0
      OBVIOUS
    <3>1. spent <= InWallet(ledger)
      BY <1>5, <1>8
    <3> QED BY <2>4, <2>5, <3>1, SpendLess
  <2>8. Cardinality(B!Credits(ledger')) = n + 1
    <3>1. Cardinality(B!Credits(ledger) \cup {row}) = Cardinality(B!Credits(ledger)) + 1
      BY <2>3, <2>4, FS_AddElement
    <3> QED BY <1>2, <2>3, <3>1
  <2>9. ASSUME NEW x \in B!Credits(ledger') PROVE x.reference > -(n + 1)
    <3>1. x \in B!Credits(ledger) => x.reference > -n
      BY <1>2 DEF WalletOK
    <3>2. x.reference \in Int /\ (x.reference > -n \/ x.reference = -n)
      <4>1. x.kind = "credit" /\ x \in WalletRow
        BY <2>2 DEF B!Credits
      <4>2. x.reference \in Int
        BY <4>1 DEF WalletRow, PaymentRow, CreditRow
      <4> QED BY <1>3, <2>3, <3>1, <4>2
    <3> QED BY <3>2, NextNumber
  <2>10. B!Clear(Own, {"renewed again"})' => -Sum(AmountOf, B!Credits(ledger')) >= Price * renewals'
    <3> SUFFICES ASSUME B!Clear(Own, {"renewed again"})' PROVE -Sum(AmountOf, B!Credits(ledger')) >= Price * renewals'
      OBVIOUS
    <3>1. -Sum(AmountOf, B!Credits(ledger)) >= Price * renewals
      BY <1>5 DEF WalletOK
    <3>2. renewals \in Nat /\ Price \in Nat
      BY PlanNumbers DEF PlanTypes
    <3>3. PICK owed \in Int : owed = Price * renewals
      BY <3>2, Renewals
    <3>4. PICK new : new = Price * renewals'
      OBVIOUS
    <3>5. new = owed \/ (new = owed + Price /\ spent >= Price)
      <4>1. CASE renewals' = renewals
        BY <3>3, <3>4, <4>1
      <4>2. CASE renewals' = renewals + 1 /\ spent >= Price
        <5>1. Price * (renewals + 1) = Price * renewals + Price
          BY <3>2, Renewals
        <5> QED BY <3>3, <3>4, <4>2, <5>1
      <4> QED BY <1>8, <4>1, <4>2
    <3>6. new \in Int
      <4>1. owed + Price \in Int
        BY <3>2, <3>3, WholeSums
      <4> QED BY <3>3, <3>5, <4>1
    <3> QED BY <2>4, <2>6, <3>1, <3>2, <3>3, <3>4, <3>5, <3>6, SpendMore
  <2>11. ledger' \ B!Credits(ledger') = ledger \ B!Credits(ledger)
    BY <1>3, <1>4, <2>1 DEF B!Credits
  <2>12. \A x \in B!Credits(ledger') : x.reference > -Cardinality(B!Credits(ledger'))
    BY <2>8, <2>9
  <2>13. /\ {x.reference : x \in ledger' \ B!Credits(ledger')} = {s.reference : s \in settled'}
         /\ total' = 2 * Commission * Cardinality(settled')
         /\ \A o \in Clients : B!Clear(o, {"earnings lost"})' => link'[o] = Commission * Cardinality({s \in settled' : s.org = o})
    BY <1>5, <2>11 DEF WalletOK
  <2>14. WalletOK'
    BY <1>6, <2>7, <2>10, <2>12, <2>13 DEF WalletOK
  <2> QED BY <2>2, <2>3, <2>14
<1> QED BY <1>7, <1>8

LEMMA ApplyOK == ASSUME B!PlanAssumption, PlanInv, NEW w \in Users, B!Apply(w) PROVE PlanInv'
<1>0. subWork[w] # B!None /\ subWork[w].step = "apply" /\ subWork[w] \in Spending /\ PlanWorkOK(subWork[w])
  BY WorkShape DEF B!Apply, B!At, PlanInv
<1>1. PICK v \in Spending : v = subWork[w]
  BY <1>0
<1>2. PICK spent \in Nat : spent = v.amount
  BY DEF Spending
<1>3. PICK row : row = [kind |-> "credit", reference |-> -Cardinality(B!Credits(ledger)), amount |-> -spent,
                        status |-> "confirmed", since |-> date]
  OBVIOUS
<1>4. PICK seen \in PlanRow : seen = v.row
  BY DEF Spending
<1>5. PICK new : new = B!Renewed(seen, seen.plan)
  OBVIOUS
<1>6. /\ ledger' = IF spent = 0 THEN ledger ELSE ledger \cup {row}
      /\ subLapses' = subLapses \cup B!Lapse(spent = 0, "renewed again", Own)
                        \cup B!Lapse(spent # 0 /\ B!Credits(ledger) # {}, "applied twice", Own)
                        \cup B!Lapse(sub[Own] # seen, "saved over", Own)
      /\ IF v.covers THEN /\ sub' = [sub EXCEPT ![Own] = new]
                          /\ renewals' = renewals + (IF seen.plan = "paid" THEN 1 ELSE 0)
                          /\ cover' = [cover EXCEPT ![Own] = date + PeriodDays]
         ELSE UNCHANGED <<sub, renewals, cover>>
      /\ subWork' = [subWork EXCEPT ![w] = B!None]
      /\ UNCHANGED <<date, settled, link, total, trials>>
  BY <1>1, <1>2, <1>3, <1>4, <1>5, PlanCounts DEF B!Apply, B!Goto
<1>7. /\ subLapses \subseteq subLapses'
      /\ spent = 0 => <<"renewed again", Own>> \in subLapses'
      /\ spent # 0 /\ B!Credits(ledger) # {} => <<"applied twice", Own>> \in subLapses'
      /\ sub[Own] # seen => <<"saved over", Own>> \in subLapses'
  BY <1>6 DEF B!Lapse
<1>8. B!Credits(ledger) = {} => spent <= InWallet(ledger)
  BY <1>0, <1>1, <1>2 DEF PlanWorkOK
<1>9. renewals \in Nat /\ Price \in Nat
  BY PlanNumbers DEF PlanInv, PlanTypes
<1>10. renewals' = renewals \/ (renewals' = renewals + 1 /\ (spent = 0 \/ spent >= Price))
  <2>1. CASE v.covers /\ seen.plan = "paid"
    <3>1. B!Costs(seen.plan) = Price
      BY <2>1 DEF B!Costs
    <3>2. v.amount >= B!Costs(v.row.plan) \/ v.amount = 0
      BY <1>0, <1>1, <2>1 DEF PlanWorkOK
    <3>3. spent >= Price \/ spent = 0
      BY <1>2, <1>4, <3>1, <3>2
    <3> QED BY <1>6, <2>1, <3>3
  <2>2. CASE v.covers /\ seen.plan # "paid"
    <3>1. renewals' = renewals + 0
      BY <1>6, <2>2
    <3> QED BY <1>9, <3>1
  <2>3. CASE ~v.covers
    BY <1>6, <2>3
  <2> QED BY <2>1, <2>2, <2>3
<1>11. /\ WalletOK' /\ ledger' \subseteq WalletRow /\ IsFiniteSet(ledger')
       /\ B!Credits(ledger') = {} => ledger' = ledger
  <2>1. PlanTypes /\ WalletOK /\ UNCHANGED <<settled, link, total>>
    BY <1>6 DEF PlanInv
  <2>2. ledger' = IF spent = 0 THEN ledger ELSE ledger \cup {row}
    BY <1>6
  <2> QED BY <1>3, <1>7, <1>8, <1>10, <2>1, <2>2, SpendWallet
<1>12. Own \in B!Orgs /\ date + PeriodDays \in Int
  BY OwnIsOrg, PlanDates DEF PlanInv
<1>13. new \in PlanRow /\ new.plan = seen.plan /\ new.status = "active" /\ new.end = date + PeriodDays
       /\ (B!TrialUsed(seen) => B!TrialUsed(new))
  <2>1. new \in PlanRow /\ new.plan = seen.plan /\ new.status = "active" /\ new.end = date + PeriodDays
        /\ new.trialEnd = seen.trialEnd
    BY <1>5, <1>12 DEF B!Renewed, PlanRow
  <2> QED BY <2>1, NoneIsNoRow DEF B!TrialUsed
<1>14. /\ sub' \in [B!Orgs -> PlanRow \cup {B!None}] /\ cover' \in [B!Orgs -> Int] /\ renewals' \in Nat
       /\ \A p \in B!Orgs \ {Own} : sub'[p] = sub[p] /\ cover'[p] = cover[p]
       /\ v.covers => sub'[Own] = new /\ cover'[Own] = date + PeriodDays
       /\ ~v.covers => sub'[Own] = sub[Own] /\ cover'[Own] = cover[Own]
  <2>1. sub \in [B!Orgs -> PlanRow \cup {B!None}] /\ cover \in [B!Orgs -> Int]
    BY DEF PlanInv, PlanTypes
  <2>2. renewals' \in Nat
    BY <1>9, <1>10
  <2>3. CASE v.covers
    BY <1>6, <1>12, <1>13, <2>1, <2>2, <2>3
  <2>4. CASE ~v.covers
    BY <1>6, <2>1, <2>2, <2>4
  <2> QED BY <2>3, <2>4
<1>15. subWork'[w] = B!None /\ (\A t \in Users \ {w} : subWork'[t] = subWork[t]) /\ subWork' \in [Users -> PlanWork]
  BY <1>6 DEF PlanInv, PlanTypes, PlanWork
<1>16. PlanTypes'
  <2>1. date' = date /\ settled' = settled /\ link' = link /\ total' = total /\ trials' = trials
    BY <1>6
  <2>2. /\ date \in 0..Horizon /\ settled \subseteq [reference : Payments, org : Clients] /\ IsFiniteSet(settled)
        /\ link \in [Clients -> Nat] /\ total \in Nat /\ trials \in [B!Orgs -> Nat]
    BY DEF PlanInv, PlanTypes
  <2> QED BY <1>11, <1>14, <1>15, <2>1, <2>2 DEF PlanTypes
<1>17. SubOK(Own) /\ OwnOK /\ date' = date /\ trials' = trials
  BY <1>6, <1>12 DEF PlanInv
<1>18. /\ B!Clear(Own, {"given up", "saved over", "expired blindly"})' =>
             B!Clear(Own, {"given up", "saved over", "expired blindly"}) /\ B!Clear(Own, {"given up", "saved over"}) /\ seen = sub[Own]
       /\ B!Clear(Own, {"trial forgotten", "saved over"})' => B!Clear(Own, {"trial forgotten", "saved over"}) /\ seen = sub[Own]
       /\ B!Clear(Own, {"given up", "saved over"})' => B!Clear(Own, {"given up", "saved over"}) /\ seen = sub[Own]
  BY <1>7 DEF B!Clear
<1>19. SubOK(Own)' /\ OwnOK'
  <2>1. CASE ~v.covers
    <3>1. SubOK(Own)'
      BY <1>14, <1>17, <1>18, <2>1 DEF SubOK, B!TrialUsed
    <3> QED BY <1>14, <1>17, <1>18, <2>1, <3>1 DEF OwnOK
  <2>2. CASE v.covers
    <3>1. sub'[Own] = new /\ cover'[Own] = date + PeriodDays
      BY <1>14, <2>2
    <3>2. cover'[Own] <= date' + PeriodDays /\ new.end >= cover'[Own]
      BY <1>12, <1>13, <1>17, <3>1
    <3>3. B!Clear(Own, {"given up", "saved over", "expired blindly"})' => new.plan = "paid"
      BY <1>13, <1>17, <1>18 DEF OwnOK
    <3>4. B!Clear(Own, {"trial forgotten", "saved over"})' => trials'[Own] = 0 \/ (trials'[Own] = 1 /\ B!TrialUsed(new))
      BY <1>13, <1>17, <1>18 DEF SubOK
    <3>5. SubOK(Own)'
      BY <1>13, <3>1, <3>2, <3>3, <3>4 DEF SubOK, B!TrialUsed
    <3>6. B!Clear(Own, {"given up", "saved over"})' => new.plan = "paid"
      BY <1>13, <1>17, <1>18 DEF OwnOK
    <3> QED BY <1>13, <3>1, <3>5, <3>6 DEF OwnOK
  <2> QED BY <2>1, <2>2
<1>20. ASSUME NEW p \in B!Orgs \ {Own} PROVE SubOK(p)'
  <2>1. SubOK(p) /\ sub'[p] = sub[p] /\ cover'[p] = cover[p] /\ trials'[p] = trials[p] /\ date' = date
    BY <1>14, <1>17 DEF PlanInv
  <2>2. \A name : <<name, p>> \in subLapses => <<name, p>> \in subLapses'
    BY <1>7
  <2> QED BY <2>1, <2>2, OtherSub
<1>21. ASSUME NEW t \in Users, subWork'[t] # B!None PROVE PlanWorkOK(subWork[t])'
  <2>1. t # w /\ subWork'[t] = subWork[t] /\ PlanWorkOK(subWork[t]) /\ subWork[t] # B!None /\ settled' = settled
    BY <1>6, <1>15, <1>21 DEF PlanInv
  <2>2. subWork[t].step = "mark" => subWork[t].day <= date' /\ \A p \in subWork[t].orgs : sub'[p] \in PlanRow
    <3> SUFFICES ASSUME subWork[t].step = "mark" PROVE subWork[t].day <= date' /\ \A p \in subWork[t].orgs : sub'[p] \in PlanRow
      OBVIOUS
    <3>1. subWork[t] \in Marking
      BY <2>1, WorkShape DEF PlanInv, B!At
    <3>2. subWork[t].orgs \subseteq B!Orgs
      BY <3>1 DEF Marking
    <3>3. subWork[t].day <= date /\ \A p \in subWork[t].orgs : sub[p] \in PlanRow
      BY <2>1 DEF PlanWorkOK
    <3> QED BY <1>13, <1>14, <1>17, <3>2, <3>3
  <2>3. InWallet(ledger)' = InWallet(ledger') /\ B!Credits(ledger)' = B!Credits(ledger')
    BY DEF InWallet, AmountOf, WalletRow, PaymentRow, CreditRow, Confirmed, B!Credits
  <2>4. subWork[t].step = "apply" /\ B!Credits(ledger') = {} => subWork[t].amount <= InWallet(ledger')
    <3> SUFFICES ASSUME subWork[t].step = "apply", B!Credits(ledger') = {} PROVE subWork[t].amount <= InWallet(ledger')
      OBVIOUS
    <3>1. ledger' = ledger
      BY <1>11
    <3> QED BY <2>1, <3>1 DEF PlanWorkOK
  <2> QED BY <2>1, <2>2, <2>3, <2>4 DEF PlanWorkOK
<1>22. PlanApart'
  <2>1. \A t \in Users : B!At(t, "activate")' => t # w /\ B!At(t, "activate") /\ subWork'[t] = subWork[t]
    BY <1>15 DEF B!At
  <2> QED BY <2>1 DEF PlanInv, PlanApart
<1> QED BY <1>11, <1>16, <1>19, <1>20, <1>21, <1>22 DEF PlanInv

LEMMA PlanStays == ASSUME PlanInv, UNCHANGED B!vars PROVE PlanInv'
<1>1. UNCHANGED <<date, sub, settled, ledger, link, total, subWork, trials, cover, renewals, subLapses>>
  BY DEF B!vars
<1>2. PlanTypes' /\ (\A o \in B!Orgs : SubOK(o)') /\ OwnOK' /\ PlanApart'
  BY <1>1 DEF PlanInv, PlanTypes, SubOK, OwnOK, PlanApart, B!Clear, B!At, B!TrialUsed
<1>3. WalletOK' /\ InWallet(ledger)' = InWallet(ledger) /\ B!Credits(ledger)' = B!Credits(ledger)
  BY <1>1 DEF PlanInv, WalletOK, B!Clear, InWallet, AmountOf, WalletRow, PaymentRow, CreditRow, Confirmed, B!Credits
<1>4. ASSUME NEW w \in Users, subWork'[w] # B!None PROVE PlanWorkOK(subWork[w])'
  <2>1. PlanWorkOK(subWork[w])
    BY <1>1, <1>4 DEF PlanInv
  <2> QED BY <1>1, <1>3, <2>1 DEF PlanWorkOK
<1> QED BY <1>2, <1>3, <1>4 DEF PlanInv

LEMMA PlanStepOK == ASSUME B!PlanAssumption, PlanInv, [B!Next]_(B!vars) PROVE PlanInv'
<1>1. ASSUME NEW w \in Users, NEW o \in B!Orgs, NEW op \in {"trial", "upgrade", "downgrade", "free", "cancel"}, B!Read(w, o, op)
      PROVE  PlanInv'
  BY <1>1, PlanReadOK
<1>2. ASSUME NEW w \in Users, NEW o \in Clients, NEW r \in Payments, B!Pay(w, o, r) PROVE PlanInv'
  BY <1>2, PayOK
<1>3. ASSUME NEW w \in Users, NEW o \in B!Orgs, B!Mark(w, o) PROVE PlanInv'
  BY <1>3, MarkOK
<1>4. ASSUME NEW w \in Users, NEW amount \in {Commission, Price}, B!Offer(w, amount) PROVE PlanInv'
  BY <1>4, OfferOK
<1>5. ASSUME NEW w \in Users, B!Save(w) \/ B!Activate(w) \/ B!List(w) \/ B!MarkedAll(w) \/ B!Check(w) \/ B!Apply(w)
      PROVE  PlanInv'
  BY <1>5, SaveOK, ActivateOK, ListOK, MarkedAllOK, CheckOK, ApplyOK
<1>6. ASSUME B!Confirm \/ B!Tick PROVE PlanInv'
  BY <1>6, PlanConfirmOK, PlanTickOK
<1>7. ASSUME UNCHANGED B!vars PROVE PlanInv'
  BY <1>7, PlanStays
<1> QED BY <1>1, <1>2, <1>3, <1>4, <1>5, <1>6, <1>7 DEF B!Next

\* In every state what an organisation has paid for runs as long as its plan, and the wallet of a
\* partner is his clients' payments less what he spent, with what every request holds in hand.
THEOREM PlanInvariance == B!PlanAssumption /\ B!Spec => []PlanInv
<1> SUFFICES ASSUME B!PlanAssumption PROVE B!Spec => []PlanInv
  OBVIOUS
<1>1. B!Init => PlanInv
  BY PlanInitOK
<1>2. PlanInv /\ [B!Next]_(B!vars) => PlanInv'
  BY PlanStepOK
<1> QED BY <1>1, <1>2, PTL DEF B!Spec

LEMMA CreditsAreSum ==
    ASSUME B!PlanAssumption, PlanTypes PROVE B!MapThenSumSet(LAMBDA row : row.amount, B!Credits(ledger)) = Sum(AmountOf, B!Credits(ledger))
<1>1. ledger \in SUBSET WalletRow /\ IsFiniteSet(ledger)
  BY LedgerRows
<1>2. PICK D \in SUBSET WalletRow : D = B!Credits(ledger)
  BY <1>1, WalletAmounts
<1>3. IsFiniteSet(D) /\ \A row \in D : AmountOf[row] = row.amount /\ row.amount \in Int
  BY <1>1, <1>2, WalletAmounts
<1>4. B!MapThenSumSet(LAMBDA row : row.amount, D) = Sum(AmountOf, D)
  BY <1>3, RowsAreSum
<1> QED BY <1>2, <1>4

LEMMA AtMostOne == ASSUME NEW n, n = 0 \/ n = 1 PROVE n <= 1
OBVIOUS
LEMMA StillRuns == ASSUME NEW now \in Int, NEW until \in Int, NEW end \in Int, until >= now, end >= until PROVE now <= end
OBVIOUS

LEMMA PlanFollows ==
    ASSUME B!PlanAssumption, PlanInv
    PROVE  B!PaidIsActive /\ B!OneTrial /\ B!WalletAgrees /\ B!CreditPaysRenewals /\ B!TypeOK
<1>1. B!PaidIsActive
  <2> SUFFICES ASSUME NEW o \in B!Orgs, cover[o] >= date, B!Clear(o, {"given up", "saved over", "expired blindly"})
               PROVE  B!Active(sub[o]) /\ sub[o].plan = "paid"
    BY DEF B!PaidIsActive
  <2>1. sub[o] \in PlanRow /\ sub[o].plan = "paid" /\ sub[o].status = "active" /\ sub[o].end >= cover[o]
    BY DEF PlanInv, SubOK
  <2>2. cover[o] \in Int /\ date \in Int
    BY DatesAreInt
  <2>3. sub[o].end \in Int
    BY <2>1 DEF PlanRow
  <2>4. date <= sub[o].end
    BY <2>1, <2>2, <2>3, StillRuns
  <2> QED BY <2>1, <2>4, NoneIsNoRow DEF B!Active
<1>2. B!OneTrial
  <2> SUFFICES ASSUME NEW o \in B!Orgs, B!Clear(o, {"trial forgotten", "saved over"}) PROVE trials[o] <= 1
    BY DEF B!OneTrial
  <2>1. trials[o] = 0 \/ trials[o] = 1
    BY DEF PlanInv, SubOK
  <2> QED BY <2>1, AtMostOne
<1>3. B!WalletAgrees
  <2>1. WalletOK /\ PlanTypes
    BY DEF PlanInv
  <2>2. B!Available(ledger) = InWallet(ledger)
    BY <2>1, LedgerRows
  <2> QED BY <2>1, <2>2, PlanCounts DEF WalletOK, B!WalletAgrees
<1>4. B!CreditPaysRenewals
  BY CreditsAreSum DEF PlanInv, WalletOK, B!CreditPaysRenewals
<1>5. B!TypeOK
  <2>1. PlanTypes
    BY DEF PlanInv
  <2>2. \A row \in ledger : row.kind \in {"payment", "credit"} /\ row.status \in {"pending", "confirmed"}
    BY <2>1 DEF PlanTypes, WalletRow, PaymentRow, CreditRow
  <2>3. B!SubscriptionRows = PlanRow
    BY DEF B!SubscriptionRows, PlanRow
  <2> QED BY <2>1, <2>2, <2>3 DEF PlanTypes, B!TypeOK
<1> QED BY <1>1, <1>2, <1>3, <1>4, <1>5

-----------------------------------------------------------------------------
(* What the parts promise, in every behaviour of the office.               *)

\* The balance of an employee and the attendance are those of the requests, and the accrued leave
\* in the ledger is the baseline of the next true-up.
THEOREM LeaveMatches == OfficeSpec => []LeaveAgrees
<1>1. L!LeaveAssumption
  BY OfficeAssumption
<1>2. LeaveInv => LeaveAgrees
  BY <1>1, LeaveFollows DEF LeaveAgrees
<1> QED BY <1>1, <1>2, LeaveInvariance, PTL DEF OfficeSpec

\* What the platform grants was paid for, once, and nobody pays twice; a paid plan is active, a
\* trial is given once, and the wallet of a partner holds what he earned less what he spent.
THEOREM GrantsMatch == OfficeSpec => []GrantsArePaid
<1>1. B!PlanAssumption
  BY OfficeAssumption
<1>2. BillInv /\ PlanInv => GrantsArePaid
  BY <1>1, BillFollows, PlanFollows DEF GrantsArePaid
<1> QED BY <1>1, <1>2, BillingInvariance, PlanInvariance, PTL DEF OfficeSpec
=============================================================================
