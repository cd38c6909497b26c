------------------------------ MODULE EInvoicing ------------------------------
(***************************************************************************)
(* Invoices and credit notes sent to the tax authority's gateway           *)
(* (src/backend/apps/einvoicing).  Every save of a finalised invoice       *)
(* queues a task unless the saver's copy says it was submitted; a worker   *)
(* runs it in autocommit, a statement at a time; Celery retries a server   *)
(* error and redelivers the task of a killed worker; a sweep requeues what *)
(* failed; the gateway calls back with the reference number.               *)
(*                                                                         *)
(* Registration of parties and items, payloads, QR codes and the notice    *)
(* that an invoice was paid are left out.  Callbacks come for invoices     *)
(* cleared one by one: a consumer's gets no number of its own, and the     *)
(* payload of a credit note has no address for one.                        *)
(***************************************************************************)
EXTENDS Integers, Sequences, FiniteSets, FiniteSetsExt

CONSTANTS
    Workers, Invoices,
    Retail,        \* invoices to consumers (B2C): reported nightly, not cleared
    MaxTries,      \* Celery retries of one task (5 in the code)
    MaxAttempts,   \* how often a failed row is swept (5 in the code)
    MaxTriggers,   \* bound: saves, manual submissions and returns
    MaxFaults      \* bound: refusals, server errors, lost answers, kills, repeated callbacks

Kinds == {"invoice", "credit"}
Jobs == [kind : Kinds, of : Invoices, tries : 0..MaxTries]
Settled == {"submitted", "cleared", "reported", "bypassed", "failed"}
Fresh == [status |-> "not_enrolled", irn |-> FALSE]

VARIABLES
    inv,       \* Invoice: firs_status, and whether it has its reference number
    rows,      \* FirsSubmission, with history: how often the gateway took it
    jobs,      \* tasks in the broker: how many of each
    worker,    \* what each worker is in the middle of
    returned,  \* invoices with a return
    triggers, faults,
    slips      \* history: the ways around a guard that have been used

submissions == <<inv, rows, jobs, worker, returned, triggers, faults, slips>>

Idle == [step |-> "idle"]
Init ==
    /\ inv = [i \in Invoices |-> Fresh] /\ rows = <<>> /\ jobs = [j \in Jobs |-> 0]
    /\ worker = [w \in Workers |-> Idle] /\ returned = {} /\ triggers = 0 /\ faults = 0 /\ slips = {}

Job(kind, i) == [kind |-> kind, of |-> i, tries |-> 0]
Queued(j) == [jobs EXCEPT ![j] = @ + 1]
RowsOf(kind, i) == {n \in DOMAIN rows : rows[n].kind = kind /\ rows[n].of = i}
Live(kind, i) == {n \in RowsOf(kind, i) : rows[n].status \in {"submitted", "cleared"}}
Goto(w, new) == worker' = [worker EXCEPT ![w] = new]
Finished(w) == Goto(w, Idle)
Slip(cond, name) == slips' = slips \cup (IF cond THEN {name} ELSE {})
Trigger == triggers < MaxTriggers /\ triggers' = triggers + 1
Fault(cond) == (cond => faults < MaxFaults) /\ faults' = faults + (IF cond THEN 1 ELSE 0)

-----------------------------------------------------------------------------
(* What queues a task.                                                     *)

\* on_invoice_save: the guard is the saver's copy, which may be of before the submission.
\* A save of the whole row writes the old fields back.
Save(i, seen, whole) ==
    /\ Trigger /\ seen \in {Fresh, inv[i]}
    /\ jobs' = IF seen.status \in Settled THEN jobs ELSE Queued(Job("invoice", i))
    /\ inv' = IF whole THEN [inv EXCEPT ![i] = seen] ELSE inv
    /\ Slip(whole /\ seen # inv[i], "stale save")
    /\ UNCHANGED <<rows, worker, returned, faults>>

ManualSubmit(i) ==
    /\ Trigger /\ inv[i].status \in {"failed", "not_enrolled"}
    /\ jobs' = Queued(Job("invoice", i))
    /\ UNCHANGED <<inv, rows, worker, returned, faults, slips>>

\* on_sale_return_save.
Return(i) ==
    /\ Trigger /\ i \notin returned /\ returned' = returned \cup {i}
    /\ jobs' = Queued(Job("credit", i))
    /\ UNCHANGED <<inv, rows, worker, faults, slips>>

\* retry_failed_submissions: one task for every failed row, of invoices and of credit
\* notes, and always one that submits the invoice.
Sweep ==
    LET due == {n \in DOMAIN rows : rows[n].status = "failed" /\ rows[n].attempts < MaxAttempts}
    IN  /\ due # {}
        /\ rows' = [n \in DOMAIN rows |-> IF n \in due THEN [rows[n] EXCEPT !.attempts = @ + 1] ELSE rows[n]]
        /\ jobs' = [j \in Jobs |-> jobs[j] + Cardinality({n \in due : j = Job("invoice", rows[n].of)})]
        /\ UNCHANGED <<inv, worker, returned, triggers, faults, slips>>

-----------------------------------------------------------------------------
(* request_irn and submit_credit_note_task.                                *)

\* The guards of the task and of the service.
Skipped_cleared(j) == j.kind = "invoice" /\ inv[j.of].status = "cleared"
Skipped(j) ==
    \/ Live(j.kind, j.of) # {}
    \/ j.kind = "invoice" /\ inv[j.of].status \in {"submitted", "cleared", "reported"}
    \/ j.kind = "credit" /\ ~inv[j.of].irn
Take(w, j) ==
    LET beside == \E v \in Workers : /\ worker[v].step \in {"checked", "sending", "answered"}
                                     /\ worker[v].job.kind = j.kind /\ worker[v].job.of = j.of
    IN
    /\ worker[w] = Idle /\ jobs[j] > 0 /\ jobs' = [jobs EXCEPT ![j] = @ - 1]
    /\ IF Skipped(j) THEN UNCHANGED worker ELSE Goto(w, [step |-> "checked", job |-> j])
    /\ Slip(beside /\ ~Skipped(j), "overlap")
    /\ UNCHANGED <<inv, rows, returned, triggers, faults>>

NewRow(j, status) ==
    Append(rows, [kind |-> j.kind, of |-> j.of, status |-> status, ref |-> FALSE, attempts |-> 1,
                  taken |-> 0, vat |-> 0])

\* _bypass_b2c: whether there is a row already is nobody's question.
Bypass(w) ==
    LET j == worker[w].job IN
    /\ worker[w].step = "checked" /\ j.kind = "invoice" /\ j.of \in Retail
    /\ rows' = NewRow(j, "bypassed")
    /\ Goto(w, [step |-> "stamp", job |-> j, mark |-> "bypassed", again |-> FALSE])
    /\ Slip(RowsOf("invoice", j.of) # {}, "bypassed again")
    /\ UNCHANGED <<inv, jobs, returned, triggers, faults>>

\* The row is there before the call.
CreateRow(w) ==
    LET j == worker[w].job IN
    /\ worker[w].step = "checked" /\ (j.kind = "credit" \/ j.of \notin Retail)
    /\ rows' = NewRow(j, "pending")
    /\ Goto(w, [step |-> "sending", job |-> j, row |-> Len(rows) + 1])
    /\ UNCHANGED <<inv, jobs, returned, triggers, faults, slips>>

\* The gateway takes the document or refuses it, fails, or its answer is lost.
Answers == {"ok", "refused", "error", "lost"}
Taking(answer) == IF answer \in {"ok", "lost"} THEN 1 ELSE 0
Send(w, answer) ==
    /\ worker[w].step = "sending" /\ Fault(answer # "ok")
    /\ rows' = [rows EXCEPT ![worker[w].row].taken = @ + Taking(answer)]
    /\ Goto(w, [step |-> "answered", job |-> worker[w].job, row |-> worker[w].row, answer |-> answer])
    /\ Slip(answer = "lost", "answer lost")
    /\ UNCHANGED <<inv, jobs, returned, triggers>>

Retried(j) == IF j.tries < MaxTries THEN Queued([j EXCEPT !.tries = @ + 1]) ELSE jobs

\* The answer goes into the row; for a credit note that is all.
RecordAnswer(w) ==
    LET me == worker[w]
        again == me.answer \in {"error", "lost"}
    IN
    /\ me.step = "answered"
    /\ rows' = [rows EXCEPT ![me.row].status = IF me.answer = "ok" THEN "submitted" ELSE "failed",
                            ![me.row].ref = (me.answer = "ok")]
    /\ IF me.job.kind = "credit"
       THEN Finished(w) /\ jobs' = IF again THEN Retried(me.job) ELSE jobs
       ELSE /\ Goto(w, [step |-> "stamp", job |-> me.job, again |-> again,
                        mark |-> IF me.answer = "ok" THEN "submitted" ELSE "failed"])
            /\ UNCHANGED jobs
    /\ UNCHANGED <<inv, returned, triggers, faults, slips>>

\* The status goes into the invoice, over whatever came in between.
Stamp(w) ==
    LET me == worker[w]
        i == me.job.of
    IN
    /\ me.step = "stamp" /\ inv' = [inv EXCEPT ![i].status = me.mark]
    /\ jobs' = IF me.again THEN Retried(me.job) ELSE jobs
    /\ Finished(w)
    /\ Slip(\/ inv[i].status \in {"cleared", "reported"}
            \/ me.mark = "failed" /\ Live("invoice", i) # {}, "overtaken")
    /\ UNCHANGED <<rows, returned, triggers, faults>>

\* reject_on_worker_lost: the task of a killed worker runs again, a callback's does not.
Kill(w) ==
    /\ worker[w] # Idle /\ Fault(TRUE) /\ Finished(w)
    /\ jobs' = IF worker[w].step = "vat" THEN jobs ELSE Queued(worker[w].job)
    /\ Slip(\/ worker[w].step \in {"stamp", "vat"}
            \/ worker[w].step = "answered" /\ worker[w].answer = "ok", "answer lost")
    /\ UNCHANGED <<inv, rows, returned, triggers>>

-----------------------------------------------------------------------------
(* The gateway's callback, and the nightly report.                         *)

\* handle_irn_callback: a callback whose reference is in no row is dropped.
Callback(w, n) ==
    /\ worker[w] = Idle /\ n \in DOMAIN rows /\ rows[n].kind = "invoice" /\ rows[n].ref /\ rows[n].of \notin Retail
    /\ Fault(rows[n].status = "cleared")
    /\ rows' = [rows EXCEPT ![n].status = "cleared"]
    /\ inv' = [inv EXCEPT ![rows[n].of] = [status |-> "cleared", irn |-> TRUE]]
    /\ Goto(w, [step |-> "vat", row |-> n, booked |-> rows[n].vat > 0])
    /\ UNCHANGED <<jobs, returned, triggers, slips>>

\* The output tax of the invoice is booked under its reference number, if it was not.
BookTax(w) ==
    LET me == worker[w] IN
    /\ me.step = "vat" /\ Finished(w)
    /\ rows' = IF me.booked THEN rows ELSE [rows EXCEPT ![me.row].vat = @ + 1]
    /\ Slip(~me.booked /\ rows[me.row].vat > 0, "callbacks crossed")
    /\ UNCHANGED <<inv, jobs, returned, triggers, faults>>

\* report_b2c_invoices, for one of the rows it found.
Report(n, answer) ==
    /\ n \in DOMAIN rows /\ rows[n].status = "bypassed" /\ Fault(answer # "ok")
    /\ rows' = [rows EXCEPT ![n].taken = @ + Taking(answer),
                            ![n].status = IF answer = "ok" THEN "reported" ELSE @]
    /\ inv' = IF answer = "ok" THEN [inv EXCEPT ![rows[n].of].status = "reported"] ELSE inv
    /\ Slip(answer = "lost", "answer lost")
    /\ UNCHANGED <<jobs, worker, returned, triggers>>

Next ==
    \/ \E i \in Invoices :
          \/ \E seen \in {Fresh, inv[i]}, whole \in BOOLEAN : Save(i, seen, whole)
          \/ ManualSubmit(i) \/ Return(i)
    \/ Sweep
    \/ \E w \in Workers :
          \/ \E j \in Jobs : Take(w, j)
          \/ \E answer \in Answers : Send(w, answer)
          \/ Bypass(w) \/ CreateRow(w) \/ RecordAnswer(w) \/ Stamp(w) \/ Kill(w) \/ BookTax(w)
          \/ \E n \in DOMAIN rows : Callback(w, n)
    \/ \E n \in DOMAIN rows, answer \in Answers : Report(n, answer)

Spec == Init /\ [][Next]_submissions

-----------------------------------------------------------------------------
TypeOK ==
    /\ inv \in [Invoices -> [status : Settled \cup {"not_enrolled"}, irn : BOOLEAN]]
    /\ \A n \in DOMAIN rows :
          rows[n] \in [kind : Kinds, of : Invoices, ref : BOOLEAN, attempts : 1..MaxAttempts,
                       status : {"pending", "submitted", "cleared", "reported", "failed", "bypassed"},
                       taken : Nat, vat : Nat]
    /\ jobs \in [Jobs -> Nat] /\ DOMAIN worker = Workers /\ returned \subseteq Invoices
    /\ triggers \in 0..MaxTriggers /\ faults \in 0..MaxFaults

\* "safe to call multiple times (e.g. from Celery retries)" (submit_invoice): however
\* often an invoice or a credit note is saved, swept, retried and submitted by hand, the
\* authority is given it once, unless an answer was lost, two tasks overlapped, or a
\* consumer's invoice was bypassed again.
SentOnce ==
    slips \cap {"answer lost", "overlap", "bypassed again"} = {} =>
        \A kind \in Kinds, i \in Invoices :
            MapThenSumSet(LAMBDA n : rows[n].taken, RowsOf(kind, i)) <= 1

\* The status on the invoice is that of its submissions, and no failure hides one that
\* succeeded, unless a stale copy or a later stamp was written over it.
StatusIsTrue ==
    slips = {} =>
        \A i \in Invoices :
            LET stamping == \E w \in Workers : worker[w].step = "stamp" /\ worker[w].job.of = i
                having(status) == \E n \in RowsOf("invoice", i) : rows[n].status = status
            IN  /\ inv[i].status = "cleared" <=> having("cleared")
                /\ inv[i].irn <=> having("cleared")
                /\ ~stamping => /\ inv[i].status = "failed" => Live("invoice", i) = {} /\ having("failed")
                                /\ inv[i].status = "submitted" <=> having("submitted")
                                /\ inv[i].status = "reported" <=> having("reported")

\* The output tax of an invoice is booked once, however often the gateway calls back.
TaxBookedOnce ==
    slips \cap {"answer lost", "overlap", "callbacks crossed"} = {} =>
        \A i \in Invoices : MapThenSumSet(LAMBDA n : rows[n].vat, RowsOf("invoice", i)) <= 1
=============================================================================
