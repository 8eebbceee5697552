---------------------------- MODULE LeadDelivery ----------------------------
(***************************************************************************)
(* Delivery of one lead to the webhook (app/services/lead_delivery.py).    *)
(* create_lead stores the row and queues a background task; an admin can   *)
(* queue another one (retry_lead_delivery) whatever the first is doing, so *)
(* several tasks may be sending the same lead.  A task lives in memory     *)
(* only.  Every time it reports its progress it opens a session, reads the *)
(* row and commits the columns that differ from what it read: two steps,   *)
(* between which the other tasks run.                                      *)
(*                                                                         *)
(* The names are told from those of CreditApplications, where the tasks of *)
(* new leads begin, so that one module can extend both.                    *)
(***************************************************************************)
EXTENDS Naturals

CONSTANTS Tasks,        \* background tasks and the retry requests that queue them
          LeadAttempts  \* settings.lead_webhook_max_attempts

ASSUME LeadAttemptsPositive == LeadAttempts \in Nat \ {0}

VARIABLES row,      \* the webhook columns of the lead_requests row, or Absent
          tasks,    \* task -> what it is doing
          reached,  \* has the receiver got the lead at least once?
          dropped,  \* a task died, or an update of the row failed and was swallowed
          enabled   \* is LEAD_WEBHOOK_URL configured?

deliveryVars == <<row, tasks, reached, dropped, enabled>>
-----------------------------------------------------------------------------
Status == {"pending", "sent", "failed", "skipped"}

\* webhook_status, webhook_attempts and "is webhook_delivered_at set".
Row == [status : Status, attempts : 0 .. LeadAttempts, delivered : BOOLEAN]

Absent == [status |-> "absent"]

Free == [pc |-> "idle"]

\* What a task is about to write: attempt n begins ("pending"), or the outcome.
Report == {"pending", "sent", "failed"}

\* "retry": a retry request that has read the row; "read" and "write": the two
\* steps of _update_lead_delivery_state; "post": attempt n is at the receiver.
TaskState ==
    {Free}
    \cup [pc : {"retry"}, seen : Row]
    \cup [pc : {"read"}, n : 1 .. LeadAttempts, report : Report]
    \cup [pc : {"write"}, n : 1 .. LeadAttempts, report : Report, seen : Row]
    \cup [pc : {"post"}, n : 1 .. LeadAttempts]

DeliveryTypeOK ==
    /\ row \in Row \cup {Absent}
    /\ tasks \in [Tasks -> TaskState]
    /\ reached \in BOOLEAN
    /\ dropped \in BOOLEAN
    /\ enabled \in BOOLEAN

DeliveryInit ==
    /\ row = Absent
    /\ tasks = [t \in Tasks |-> Free]
    /\ reached = FALSE
    /\ dropped = FALSE
    /\ enabled \in BOOLEAN

Become(t, s) == tasks' = [tasks EXCEPT ![t] = s]

ReportAs(n, r) == [pc |-> "read", n |-> n, report |-> r]
-----------------------------------------------------------------------------
\* create_lead: the row is committed, then its task is queued; without a URL
\* the row is born skipped and the task ends at once.
CreateLead(t) ==
    /\ row = Absent
    /\ row' = [status |-> IF enabled THEN "pending" ELSE "skipped",
               attempts |-> 0, delivered |-> FALSE]
    /\ IF enabled THEN Become(t, ReportAs(1, "pending")) ELSE UNCHANGED tasks
    /\ UNCHANGED <<reached, dropped, enabled>>

\* retry_lead_delivery: the request reads the row.
BeginRetry(t) ==
    /\ tasks[t] = Free
    /\ row # Absent
    /\ enabled
    /\ Become(t, [pc |-> "retry", seen |-> row])
    /\ UNCHANGED <<row, reached, dropped, enabled>>

\* Mutant: the retry puts the row back to pending but queues a task only when
\* the row it read was not pending already.
RetryUnqueued(t) ==
    /\ tasks[t].pc = "retry"
    /\ row' = [row EXCEPT !.status = "pending"]
    /\ Become(t, IF tasks[t].seen.status = "pending"
                 THEN Free ELSE ReportAs(1, "pending"))
    /\ UNCHANGED <<reached, dropped, enabled>>

\* retry_lead_delivery: back to pending, commit, queue a task.
CommitRetry(t) ==
    /\ tasks[t].pc = "retry"
    /\ row' = IF tasks[t].seen.status = "pending"
              THEN row ELSE [row EXCEPT !.status = "pending"]
    /\ Become(t, ReportAs(1, "pending"))
    /\ UNCHANGED <<reached, dropped, enabled>>

\* The retry request fails: no task is queued.
FailRetry(t) ==
    /\ tasks[t].pc = "retry"
    /\ Become(t, Free)
    /\ UNCHANGED <<row, reached, dropped, enabled>>
-----------------------------------------------------------------------------
\* _update_lead_delivery_state: the row is read.
ReadRow(t) ==
    /\ tasks[t].pc = "read"
    /\ Become(t, [pc |-> "write", n |-> tasks[t].n,
                  report |-> tasks[t].report, seen |-> row])
    /\ UNCHANGED <<row, reached, dropped, enabled>>

\* Mutant: the delivery time is stamped when the attempt begins.
StampedEarly(t, r) ==
    [r EXCEPT
        !.status = IF t.report = t.seen.status THEN @ ELSE t.report,
        !.attempts = IF t.report # "pending" \/ t.n = t.seen.attempts
                     THEN @ ELSE t.n,
        !.delivered = @ \/ t.report \in {"sent", "pending"}]

\* Mutant: attempts are counted from zero.
CountedFromZero(t, r) ==
    [r EXCEPT
        !.status = IF t.report = t.seen.status THEN @ ELSE t.report,
        !.attempts = IF t.report # "pending" \/ t.n - 1 = t.seen.attempts
                     THEN @ ELSE t.n - 1,
        !.delivered = @ \/ t.report = "sent"]

\* The row after the UPDATE of task t: only columns that differ from the row
\* it read are written.
Updated(t, r) ==
    [r EXCEPT
        !.status = IF t.report = t.seen.status THEN @ ELSE t.report,
        !.attempts = IF t.report # "pending" \/ t.n = t.seen.attempts
                     THEN @ ELSE t.n,
        !.delivered = @ \/ t.report = "sent"]

\* After its report a task posts the attempt, or is done.
AfterReport(t) ==
    Become(t, IF tasks[t].report = "pending"
              THEN [pc |-> "post", n |-> tasks[t].n] ELSE Free)

\* _update_lead_delivery_state: the commit.
WriteRow(t) ==
    /\ tasks[t].pc = "write"
    /\ row' = Updated(tasks[t], row)
    /\ AfterReport(t)
    /\ UNCHANGED <<reached, dropped, enabled>>

\* _update_lead_delivery_state: the database fails, the exception is logged
\* and swallowed, the task goes on.
UpdateFails(t) ==
    /\ tasks[t].pc \in {"read", "write"}
    /\ AfterReport(t)
    /\ dropped' = TRUE
    /\ UNCHANGED <<row, reached, enabled>>
-----------------------------------------------------------------------------
\* send_lead_webhook: the receiver answers with a success.
PostAnswered(t) ==
    /\ tasks[t].pc = "post"
    /\ reached' = TRUE
    /\ Become(t, ReportAs(tasks[t].n, "sent"))
    /\ UNCHANGED <<row, dropped, enabled>>

\* Mutant: the last attempt is not told from the others.
PostFailsForgotten(t, got) ==
    /\ tasks[t].pc = "post"
    /\ reached' = (reached \/ got)
    /\ Become(t, IF tasks[t].n < LeadAttempts
                 THEN ReportAs(tasks[t].n + 1, "pending") ELSE Free)
    /\ UNCHANGED <<row, dropped, enabled>>

\* Mutant: one attempt too many.
PostFailsOnceMore(t, got) ==
    /\ tasks[t].pc = "post"
    /\ reached' = (reached \/ got)
    /\ Become(t, IF tasks[t].n <= LeadAttempts
                 THEN ReportAs(tasks[t].n + 1, "pending")
                 ELSE ReportAs(LeadAttempts, "failed"))
    /\ UNCHANGED <<row, dropped, enabled>>

\* send_lead_webhook: an error status, no connection, or no answer in time;
\* the receiver may have got the lead all the same.  Another attempt follows
\* (after the backoff) unless this was the last one.
PostFails(t, got) ==
    /\ tasks[t].pc = "post"
    /\ reached' = (reached \/ got)
    /\ Become(t, IF tasks[t].n < LeadAttempts
                 THEN ReportAs(tasks[t].n + 1, "pending")
                 ELSE ReportAs(LeadAttempts, "failed"))
    /\ UNCHANGED <<row, dropped, enabled>>

\* The process of a task stops: background tasks are not persisted.
TaskDies(t) ==
    /\ tasks[t] # Free
    /\ Become(t, Free)
    /\ dropped' = TRUE
    /\ UNCHANGED <<row, reached, enabled>>

\* A deployment with other settings (they are read once, at start).
Reconfigure ==
    /\ \A t \in Tasks : tasks[t] = Free
    /\ enabled' = ~enabled
    /\ UNCHANGED <<row, tasks, reached, dropped>>
-----------------------------------------------------------------------------
\* The steps of a task that nothing holds up: every call has a timeout.
TaskStep(t) == \/ ReadRow(t)
               \/ WriteRow(t)
               \/ UpdateFails(t)
               \/ PostAnswered(t)
               \/ \E got \in BOOLEAN : PostFails(t, got)

DeliveryNext ==
    \/ \E t \in Tasks : \/ CreateLead(t)
                        \/ BeginRetry(t)
                        \/ CommitRetry(t)
                        \/ FailRetry(t)
                        \/ TaskStep(t)
                        \/ TaskDies(t)
    \/ Reconfigure

DeliverySpec == DeliveryInit /\ [][DeliveryNext]_deliveryVars

FairDelivery == DeliverySpec /\ \A t \in Tasks : WF_deliveryVars(TaskStep(t))
-----------------------------------------------------------------------------
\* A lead shown as sent, or stamped as delivered, did reach the receiver,
\* whatever tasks and retries overlapped (and whatever update was lost).
SentWasReceived ==
    row # Absent /\ (row.status = "sent" \/ row.delivered) => reached

\* When no task is left the row is settled: nothing stays pending with nobody
\* to send it, although a task leaves out the status column when the row it
\* read already had that status.
QuietMeansSettled ==
    (row # Absent /\ ~dropped /\ \A t \in Tasks : tasks[t] = Free)
        => row.status # "pending"

\* No delivery is recorded without an attempt having been counted before it.
SettledWasAttempted ==
    (row # Absent /\ ~dropped /\ row.status \in {"sent", "failed"})
        => row.attempts > 0

\* A pending lead is eventually sent or given up, unless a task or an update
\* of the row is lost on the way.
PendingIsSettled ==
    row.status = "pending"
        ~> (dropped \/ row.status # "pending")
=============================================================================
