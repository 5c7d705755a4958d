--------------------------- MODULE WebhookDelivery ---------------------------
(***************************************************************************)
(* The merchant notification engine: rows of table webhook_logs, the       *)
(* WebhookDeliveryJob that polls them, the WebhookDispatcher that performs *)
(* one delivery attempt, and the administrator's manual retry, which runs  *)
(* the same dispatcher from an HTTP request, concurrently with the job.    *)
(*                                                                         *)
(* A row is always written back whole (gorm Save) from the copy that its   *)
(* writer read earlier, and no write checks the status it overwrites.      *)
(* Time is abstracted to whether next_retry_at is unset, ahead or passed.  *)
(***************************************************************************)
EXTENDS Integers, FiniteSets

CONSTANTS
    NDeliveries,    \* rows are numbered in the order of created_at
    Admins,         \* requests of POST /admin/webhooks/:id/retry that may overlap
    BadCallback,    \* deliveries to a callback URL that http.NewRequest rejects
    BatchSize,      \* rows fetched by one tick of the job (20 in the code)
    MaxRetries,     \* webhookMaxRetries (10 in the code)
    MaxManual,      \* bound: manual retries per delivery
    MaxStops,       \* bound: crashes and shutdowns
    MaxLost,        \* bound: failed writes of webhook_logs, per delivery
    MaxLookups      \* bound: failed merchant lookups

ASSUME NDeliveriesAssumption == NDeliveries \in Nat \ {0}
ASSUME BatchSizeAssumption == BatchSize \in Nat \ {0}
ASSUME MaxRetriesAssumption == MaxRetries \in Nat \ {0}
ASSUME BoundsAssumption == /\ MaxManual \in Nat
                           /\ MaxStops \in Nat
                           /\ MaxLost \in Nat
                           /\ MaxLookups \in Nat
ASSUME JobAssumption == "job" \notin Admins
ASSUME BadCallbackAssumption == BadCallback \subseteq 1 .. NDeliveries

Deliveries == 1 .. NDeliveries

\* The job is one goroutine; every manual retry runs in a goroutine of its own.
Workers == {"job"} \cup Admins

WebhookDeliveryStatus ==
    {"pending", "delivering", "delivered", "retrying", "failed", "dropped"}

\* The columns of webhook_logs that decide what happens next; "absent" stands
\* for a row that enqueueWebhookDelivery has not inserted.
Row == [status : WebhookDeliveryStatus \cup {"absent"},
        retry  : Nat,
        next   : {"unset", "ahead", "passed"}]

RowWith(s, n, t) == [status |-> s, retry |-> n, next |-> t]

NoRow == RowWith("absent", 0, "unset")

Settled == {"delivered", "failed", "dropped"}

VARIABLES
    row,            \* table webhook_logs
    active,         \* merchant.WebhookIsActive with a callback URL
    jobUp,          \* the job goroutine is running
    batch,          \* rows fetched by the current tick and not yet processed
    snap,           \* the copies of those rows, as they were when fetched
    pc,             \* where each worker is inside Dispatch
    cur,            \* the delivery each worker is dispatching
    copy,           \* the copy of the row that it will write back
    answer,         \* outcome of its HTTP request
    attempts,       \* history: HTTP requests sent for each delivery
    accepted,       \* history: requests the merchant accepted
    unheard,        \* history: accepted requests whose answer never arrived
    manual,         \* history: manual retries of each delivery
    lost,           \* history: writes of each row that failed
    stops, lookups  \* history: crashes and shutdowns; failed merchant lookups

vars == <<row, active, jobUp, batch, snap, pc, cur, copy, answer,
          attempts, accepted, unheard, manual, lost, stops, lookups>>

TypeOK ==
    /\ row \in [Deliveries -> Row]
    /\ active \in BOOLEAN
    /\ jobUp \in BOOLEAN
    /\ batch \subseteq Deliveries
    /\ snap \in [Deliveries -> Row]
    /\ pc \in [Workers -> {"idle", "loaded", "marked", "answered"}]
    /\ cur \in [Workers -> Deliveries]
    /\ copy \in [Workers -> Row]
    /\ answer \in [Workers -> {"none", "2xx", "unheard", "refused"}]
    /\ attempts \in [Deliveries -> Nat]
    /\ accepted \in [Deliveries -> Nat]
    /\ unheard \in [Deliveries -> Nat]
    /\ manual \in [Deliveries -> Nat]
    /\ lost \in [Deliveries -> Nat]
    /\ stops \in Nat
    /\ lookups \in Nat

Init ==
    /\ row = [d \in Deliveries |-> NoRow]
    /\ active \in BOOLEAN
    /\ jobUp = TRUE
    /\ batch = {}
    /\ snap = [d \in Deliveries |-> NoRow]
    /\ pc = [w \in Workers |-> "idle"]
    /\ cur = [w \in Workers |-> 1]
    /\ copy = [w \in Workers |-> NoRow]
    /\ answer = [w \in Workers |-> "none"]
    /\ attempts = [d \in Deliveries |-> 0]
    /\ accepted = [d \in Deliveries |-> 0]
    /\ unheard = [d \in Deliveries |-> 0]
    /\ manual = [d \in Deliveries |-> 0]
    /\ lost = [d \in Deliveries |-> 0]
    /\ stops = 0
    /\ lookups = 0

history == <<attempts, accepted, unheard, manual, lost, stops, lookups>>

-----------------------------------------------------------------------------
(* Rows *)

\* enqueueWebhookDelivery inserts a pending row, after the transaction that
\* changed the payment.
Enqueue(d) ==
    /\ row[d].status = "absent"
    /\ \A e \in Deliveries : e < d => row[e].status # "absent"
    /\ row' = [row EXCEPT ![d] = RowWith("pending", 0, "unset")]
    /\ UNCHANGED <<active, jobUp, batch, snap, pc, cur, copy, answer, history>>

\* The wait set by setNextRetryAt passes.
RetryTimePasses(d) ==
    /\ row[d].next = "ahead"
    /\ row' = [row EXCEPT ![d] = RowWith(@.status, @.retry, "passed")]
    /\ UNCHANGED <<active, jobUp, batch, snap, pc, cur, copy, answer, history>>

\* The merchant's webhook settings are changed.
SetWebhookConfig ==
    /\ active' = ~active
    /\ UNCHANGED <<row, jobUp, batch, snap, pc, cur, copy, answer, history>>

\* Update: the whole copy c replaces row d, or the write fails and leaves it.
Update(d, c) ==
    \/ /\ row' = [row EXCEPT ![d] = c]
       /\ UNCHANGED lost
    \/ /\ lost[d] < MaxLost
       /\ lost' = [lost EXCEPT ![d] = @ + 1]
       /\ UNCHANGED row

-----------------------------------------------------------------------------
(* The job *)

\* Faulty variant: interrupted deliveries are picked up like pending ones.
PickableInterrupted(r) ==
    r.status \in {"pending", "retrying", "delivering"} /\ r.next # "ahead"

\* Faulty variant: the query forgets the retrying rows.
PickableOnlyPending(r) == r.status = "pending" /\ r.next # "ahead"

\* Faulty variant: the query forgets the status.
PickableAnyStatus(r) == r.status # "absent" /\ r.next # "ahead"

\* GetPendingAttempts
Pickable(r) == r.status \in {"pending", "retrying"} /\ r.next # "ahead"

PendingAttempts ==
    LET ready == {d \in Deliveries : Pickable(row[d])}
    IN  {d \in ready : Cardinality({e \in ready : e < d}) < BatchSize}

\* One tick: the job copies the rows it will process.
FetchBatch ==
    /\ jobUp
    /\ pc["job"] = "idle" /\ batch = {}
    /\ PendingAttempts # {}
    /\ batch' = PendingAttempts
    /\ snap' = [d \in Deliveries |-> IF d \in batch' THEN row[d] ELSE NoRow]
    /\ UNCHANGED <<row, active, jobUp, pc, cur, copy, answer, history>>

\* The next row of the batch, in the order it was fetched.
First(d) == d \in batch /\ \A e \in batch : d <= e

Pop(d) == /\ batch' = batch \ {d}
          /\ snap' = [snap EXCEPT ![d] = NoRow]

\* The loop body up to Dispatch: exhausted rows are failed at once. The test
\* of next_retry_at in the loop never skips a row: a fetched row had none, or
\* one that had already passed.
TakeNext(d) ==
    /\ jobUp
    /\ pc["job"] = "idle" /\ First(d)
    /\ Pop(d)
    /\ IF snap[d].retry >= MaxRetries
         THEN /\ Update(d, RowWith("failed", snap[d].retry, "unset"))
              /\ UNCHANGED <<pc, cur, copy>>
         ELSE /\ pc' = [pc EXCEPT !["job"] = "loaded"]
              /\ cur' = [cur EXCEPT !["job"] = d]
              /\ copy' = [copy EXCEPT !["job"] = snap[d]]
              /\ UNCHANGED <<row, lost>>
    /\ UNCHANGED <<active, jobUp, answer, attempts, accepted, unheard, manual, stops, lookups>>

-----------------------------------------------------------------------------
(* ManualRetry: any row, whatever its status *)

ManualRetry(a, d) ==
    /\ pc[a] = "idle"
    /\ row[d].status # "absent"
    /\ manual[d] < MaxManual
    /\ manual' = [manual EXCEPT ![d] = @ + 1]
    /\ pc' = [pc EXCEPT ![a] = "loaded"]
    /\ cur' = [cur EXCEPT ![a] = d]
    /\ copy' = [copy EXCEPT ![a] = row[d]]
    /\ UNCHANGED <<row, active, jobUp, batch, snap, answer,
                   attempts, accepted, unheard, lost, stops, lookups>>

-----------------------------------------------------------------------------
(* Dispatch, run by worker w *)

\* The worker leaves Dispatch; its local variables are gone.
Return(w) ==
    /\ pc' = [pc EXCEPT ![w] = "idle"]
    /\ cur' = [cur EXCEPT ![w] = 1]
    /\ copy' = [copy EXCEPT ![w] = NoRow]
    /\ answer' = [answer EXCEPT ![w] = "none"]

\* merchantRepo.GetByID fails: Dispatch returns with the row as it was.
MerchantLookupFails(w) ==
    /\ pc[w] = "loaded"
    /\ lookups < MaxLookups
    /\ lookups' = lookups + 1
    /\ Return(w)
    /\ UNCHANGED <<row, active, jobUp, batch, snap,
                   attempts, accepted, unheard, manual, lost, stops>>

\* The merchant takes no webhooks.
Drop(w) ==
    /\ pc[w] = "loaded"
    /\ ~active
    /\ Update(cur[w], RowWith("dropped", copy[w].retry, copy[w].next))
    /\ Return(w)
    /\ UNCHANGED <<active, jobUp, batch, snap,
                   attempts, accepted, unheard, manual, stops, lookups>>

\* The request cannot be built: Dispatch returns with the row as it was, no
\* retry counted.
NewRequestFails(w) ==
    /\ pc[w] = "loaded"
    /\ active
    /\ cur[w] \in BadCallback
    /\ Return(w)
    /\ UNCHANGED <<row, active, jobUp, batch, snap, history>>

Marked(c) == RowWith("delivering", c.retry, "unset")

\* The row is saved as delivering before the request leaves; the error of that
\* save is ignored.
MarkDelivering(w) ==
    /\ pc[w] = "loaded"
    /\ active
    /\ cur[w] \notin BadCallback
    /\ copy' = [copy EXCEPT ![w] = Marked(@)]
    /\ Update(cur[w], Marked(copy[w]))
    /\ pc' = [pc EXCEPT ![w] = "marked"]
    /\ UNCHANGED <<active, jobUp, batch, snap, cur, answer,
                   attempts, accepted, unheard, manual, stops, lookups>>

\* httpClient.Do: answered 2xx, refused (another status, or never delivered),
\* or accepted by the merchant while the client times out or loses the answer,
\* which Dispatch cannot tell from a refusal.
Send(w, a) ==
    /\ pc[w] = "marked"
    /\ answer' = [answer EXCEPT ![w] = a]
    /\ attempts' = [attempts EXCEPT ![cur[w]] = @ + 1]
    /\ accepted' = [accepted EXCEPT ![cur[w]] = IF a # "refused" THEN @ + 1 ELSE @]
    /\ unheard' = [unheard EXCEPT ![cur[w]] = IF a = "unheard" THEN @ + 1 ELSE @]
    /\ pc' = [pc EXCEPT ![w] = "answered"]
    /\ UNCHANGED <<row, active, jobUp, batch, snap, cur, copy,
                   manual, lost, stops, lookups>>

\* A failed attempt: RetryCount is now n, and setNextRetryAt decides between
\* another attempt and giving up.
SetNextRetryAt(n) ==
    IF n >= MaxRetries THEN RowWith("failed", n, "unset")
                       ELSE RowWith("retrying", n, "ahead")

\* Faulty variant: an accepted delivery is only unscheduled.
OutcomeStillRetrying(c, a) ==
    IF a = "2xx" THEN RowWith("retrying", c.retry, "unset")
                 ELSE SetNextRetryAt(c.retry + 1)

\* Faulty variant: a refusal is counted and the row left delivering.
OutcomeLeftDelivering(c, a) ==
    IF a = "2xx" THEN RowWith("delivered", c.retry, "unset")
                 ELSE RowWith("delivering", c.retry + 1, "ahead")

Outcome(c, a) ==
    IF a = "2xx" THEN RowWith("delivered", c.retry, "unset")
                 ELSE SetNextRetryAt(c.retry + 1)

\* The outcome is saved and Dispatch returns.
Record(w) ==
    /\ pc[w] = "answered"
    /\ Update(cur[w], Outcome(copy[w], answer[w]))
    /\ Return(w)
    /\ UNCHANGED <<active, jobUp, batch, snap,
                   attempts, accepted, unheard, manual, stops, lookups>>

-----------------------------------------------------------------------------
(* Stopping *)

\* SIGTERM cancels the job's context: the request in flight is aborted, every
\* later save of that context fails, and the job goroutine ends. The HTTP
\* server is not stopped, so manual retries and enqueues go on.
Shutdown ==
    /\ jobUp
    /\ stops < MaxStops
    /\ stops' = stops + 1
    /\ jobUp' = FALSE
    /\ batch' = {}
    /\ snap' = [d \in Deliveries |-> NoRow]
    /\ Return("job")
    /\ UNCHANGED <<row, active, attempts, accepted, unheard, manual, lost, lookups>>

\* The process dies and is started again: only the table survives.
CrashRestart ==
    /\ stops < MaxStops
    /\ stops' = stops + 1
    /\ jobUp' = TRUE
    /\ batch' = {}
    /\ snap' = [d \in Deliveries |-> NoRow]
    /\ pc' = [w \in Workers |-> "idle"]
    /\ cur' = [w \in Workers |-> 1]
    /\ copy' = [w \in Workers |-> NoRow]
    /\ answer' = [w \in Workers |-> "none"]
    /\ UNCHANGED <<row, active, attempts, accepted, unheard, manual, lost, lookups>>

-----------------------------------------------------------------------------
DispatchStep(w) == \/ MerchantLookupFails(w)
                   \/ Drop(w)
                   \/ NewRequestFails(w)
                   \/ MarkDelivering(w)
                   \/ \E a \in {"2xx", "unheard", "refused"} : Send(w, a)
                   \/ Record(w)

Next == \/ \E d \in Deliveries : Enqueue(d)
        \/ \E d \in Deliveries : RetryTimePasses(d)
        \/ SetWebhookConfig
        \/ FetchBatch
        \/ \E d \in Deliveries : TakeNext(d)
        \/ \E a \in Admins, d \in Deliveries : ManualRetry(a, d)
        \/ \E w \in Workers : DispatchStep(w)
        \/ Shutdown
        \/ CrashRestart

\* The ticker keeps ticking, the loop and every Dispatch run on (each request
\* has a 10 second timeout), and time passes. Nothing obliges the merchant to
\* answer 2xx, an administrator to retry, or the process to fail.
Fairness ==
    /\ WF_vars(FetchBatch)
    /\ WF_vars(\E d \in Deliveries : TakeNext(d))
    /\ \A w \in Workers : WF_vars(DispatchStep(w))
    /\ \A d \in Deliveries : WF_vars(RetryTimePasses(d))

Spec == Init /\ [][Next]_vars /\ Fairness

-----------------------------------------------------------------------------
(* Properties *)

\* The retry counter never runs ahead of the requests really sent, although
\* stale copies overwrite newer rows (webhook_dispatcher.go, RetryCount++).
RetryNeverOvercounts == \A d \in Deliveries : row[d].retry <= attempts[d]

\* A row the job can pick has retries left: the job's own test of
\* WebhookMaxRetries never fires, whoever wrote the row last.
PickableHasRetries ==
    \A d \in Deliveries : Pickable(row[d]) => row[d].retry < MaxRetries

\* A delivery is only given up after MaxRetries requests were really sent.
FailedAfterMaxRetries ==
    \A d \in Deliveries : row[d].status = "failed" => attempts[d] >= MaxRetries

\* Without manual retries, a delivery costs at most MaxRetries requests plus
\* one for every write of its row that failed; crashes add none.
AttemptsBounded ==
    \A d \in Deliveries : manual[d] = 0 => attempts[d] <= MaxRetries + lost[d]

\* A merchant that accepted a delivery gets it again only because of a manual
\* retry, of a write that failed or of an answer that did not arrive: every
\* acceptance after the first is due to one of these.
DuplicatesAccounted ==
    \A d \in Deliveries : accepted[d] <= 1 + manual[d] + lost[d] + unheard[d]

\* migrations/000042: 'pending' is "Log created but not yet attempted".
PendingNotAttempted ==
    \A d \in Deliveries :
        row[d].status = "pending" /\ lost[d] = 0 => attempts[d] = 0

\* migrations/000042: 'delivering' is "Currently being processed by a worker",
\* unless a stop or a lost write orphaned the row.
DeliveringHasWorkerUnlessInterrupted ==
    \A d \in Deliveries :
        row[d].status = "delivering" =>
            \/ \E w \in Workers : pc[w] \in {"marked", "answered"} /\ cur[w] = d
            \/ stops > 0
            \/ lost[d] > 0

\* Every enqueued delivery that can be sent is settled in the end, if the
\* process is not stopped and no write of its row fails.
EventuallySettled ==
    \A d \in Deliveries \ BadCallback :
        row[d].status = "pending" ~>
            \/ row[d].status \in Settled
            \/ stops > 0
            \/ lost[d] > 0

\* The engine implements what Notification promises: whatever stale copies are
\* written back and wherever the process stops, "delivered" was accepted,
\* "failed" was tried MaxRetries times, and only a manual retry or a failed
\* write reopens a delivery that has ended.
Notified == INSTANCE Notification WITH
    state     <- [d \in Deliveries |-> IF row[d].status \in {"pending", "delivering", "retrying"}
                                       THEN "open" ELSE row[d].status],
    sent      <- attempts,
    disturbed <- [d \in Deliveries |-> manual[d] + lost[d]]

Implements == Notified!Spec

=============================================================================
