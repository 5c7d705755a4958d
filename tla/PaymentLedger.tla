---------------------------- MODULE PaymentLedger ----------------------------
(***************************************************************************)
(* The life of a payment: CreatePayment inserts it, the indexer reports    *)
(* what happens on chain to POST /webhooks/indexer, and                    *)
(* ProcessIndexerWebhook applies each report in a transaction that locks   *)
(* the payment, then inserts the merchant's notification in webhook_logs   *)
(* outside that transaction.                                               *)
(*                                                                         *)
(* Reports reach the backend in the order of their block, but a report     *)
(* that was not answered in time is sent again while the first request may *)
(* still be running.                                                       *)
(***************************************************************************)
EXTENDS Integers, Sequences, FiniteSets

CONSTANTS
    Payments,       \* payments that this backend may create
    Foreign,        \* payments of the gateway contract unknown to the backend
    Attributed,     \* payments with a merchant
    Reports,        \* Reports[p]: what the indexer reports of p, in chain order
    Handlers,       \* requests of POST /webhooks/indexer that may overlap
    MaxSends,       \* bound: times one report is sent
    MaxFaults,      \* bound: database errors, cancelled contexts, lost answers
    MaxCrashes      \* bound: crashes of the process

\* entities.PaymentStatus
PaymentStatus == {"PENDING", "PROCESSING", "COMPLETED", "FAILED", "REFUNDED"}

IndexerStatus ==
    {"pending", "processing", "completed", "failed", "refunded", "other"}

Report ==
    [type   : {"PAYMENT_CREATED", "PAYMENT_EXECUTED", "PAYMENT_COMPLETED",
               "PAYMENT_REFUNDED", "PAYMENT_FAILED"},
     status : IndexerStatus,
     reason : BOOLEAN]

CreationEvents == {"CREATED", "QUOTE_SNAPSHOT_CAPTURED"}

AllPayments == Payments \cup Foreign

ASSUME PaymentsAssumption == Payments \cap Foreign = {}
ASSUME AttributedAssumption == Attributed \subseteq Payments
ASSUME ReportsAssumption == Reports \in [AllPayments -> Seq(Report)]
ASSUME HandlersAssumption == IsFiniteSet(Handlers)
ASSUME LedgerBoundsAssumption ==
    MaxSends \in Nat /\ MaxFaults \in Nat /\ MaxCrashes \in Nat

VARIABLES
    payment,        \* table payments
    creator,        \* where the CreatePayment of each payment is
    audit,          \* payment_events written by CreatePayment
    events,         \* payment_events written by ProcessIndexerWebhook: the
                    \* indices of the reports, in the order they were applied
    notices,        \* webhook_logs: the event types enqueued for each payment
    lock,           \* the handler whose transaction holds the payment's row lock
    pc, job,        \* where each handler is, and what it works on
    acked,          \* indexer: how many reports of each payment were answered 200
    sends,          \* indexer: times the next report has been sent
    lost,           \* history: notices that were due and not enqueued
    dups,           \* history: reports sent again
    faults, crashes \* history: errors; crashes

vars == <<payment, creator, audit, events, notices, lock, pc, job,
          acked, sends, lost, dups, faults, crashes>>

Row == [status : PaymentStatus \cup {"none"}, reason : BOOLEAN]

RowWith(s, r) == [status |-> s, reason |-> r]

NoPayment == RowWith("none", FALSE)

\* A handler's work: payment p, the index i of its report, and the row r that
\* its transaction writes.
Work(p, i, r) == [p |-> p, i |-> i, r |-> r]

Nobody == "none"

NoWork == Work(Nobody, 0, NoPayment)

ASSUME NobodyAssumption == Nobody \notin Handlers \cup AllPayments

TypeOK ==
    /\ payment \in [AllPayments -> Row]
    /\ creator \in [AllPayments -> {"start", "inserted", "announced",
                                    "responded", "rejected", "killed"}]
    /\ audit \in [AllPayments -> SUBSET CreationEvents]
    /\ events \in [AllPayments -> Seq(Nat \ {0})]
    /\ notices \in [AllPayments -> Seq(PaymentStatus)]
    /\ lock \in [AllPayments -> Handlers \cup {Nobody}]
    /\ pc \in [Handlers -> {"idle", "received", "locked", "updated",
                            "committed", "answering"}]
    /\ job \in [Handlers -> [p : AllPayments \cup {Nobody}, i : Nat, r : Row]]
    /\ acked \in [AllPayments -> Nat]
    /\ sends \in [AllPayments -> Nat]
    /\ lost \in [AllPayments -> Nat]
    /\ dups \in Nat /\ faults \in Nat /\ crashes \in Nat

Init ==
    /\ payment = [p \in AllPayments |-> NoPayment]
    /\ creator = [p \in AllPayments |-> "start"]
    /\ audit = [p \in AllPayments |-> {}]
    /\ events = [p \in AllPayments |-> <<>>]
    /\ notices = [p \in AllPayments |-> <<>>]
    /\ lock = [p \in AllPayments |-> Nobody]
    /\ pc = [h \in Handlers |-> "idle"]
    /\ job = [h \in Handlers |-> NoWork]
    /\ acked = [p \in AllPayments |-> 0]
    /\ sends = [p \in AllPayments |-> 0]
    /\ lost = [p \in AllPayments |-> 0]
    /\ dups = 0 /\ faults = 0 /\ crashes = 0

creation == <<creator, audit>>
processing == <<events, notices, lock, pc, job, lost>>
indexer == <<acked, sends, dups>>

Fault == faults < MaxFaults /\ faults' = faults + 1

-----------------------------------------------------------------------------
(* CreatePayment *)

\* The payment is inserted, in a transaction of its own.
InsertPayment(p) ==
    /\ creator[p] = "start"
    /\ p \in Payments
    /\ payment' = [payment EXCEPT ![p] = RowWith("PENDING", FALSE)]
    /\ creator' = [creator EXCEPT ![p] = "inserted"]
    /\ UNCHANGED <<audit, processing, indexer, faults, crashes>>

\* The CREATED event is written after the commit, best effort.
WriteCreatedEvent(p) ==
    /\ creator[p] = "inserted"
    /\ creator' = [creator EXCEPT ![p] = "announced"]
    /\ \/ audit' = [audit EXCEPT ![p] = @ \cup {"CREATED"}] /\ UNCHANGED faults
       \/ Fault /\ UNCHANGED audit
    /\ UNCHANGED <<payment, processing, indexer, crashes>>

\* buildTransactionDataWithInput fails: an error is returned and the payment
\* that was committed stays.
BuildFails(p) ==
    /\ creator[p] = "announced"
    /\ creator' = [creator EXCEPT ![p] = "rejected"]
    /\ UNCHANGED <<payment, audit, processing, indexer, faults, crashes>>

\* The caller gets the transaction to sign; when the quote left something to
\* record, a snapshot event is written, best effort.
Respond(p) ==
    /\ creator[p] = "announced"
    /\ creator' = [creator EXCEPT ![p] = "responded"]
    /\ \/ UNCHANGED <<audit, faults>>
       \/ /\ audit' = [audit EXCEPT ![p] = @ \cup {"QUOTE_SNAPSHOT_CAPTURED"}]
          /\ UNCHANGED faults
       \/ Fault /\ UNCHANGED audit
    /\ UNCHANGED <<payment, processing, indexer, crashes>>

-----------------------------------------------------------------------------
(* What a report says *)

\* Faulty variant of mapStatus: it has lost a case.
MapStatusWithoutRefund(s) ==
    IF s = "processing" THEN "PROCESSING"
    ELSE IF s = "completed" THEN "COMPLETED"
    ELSE IF s = "failed" THEN "FAILED"
    ELSE "PENDING"

\* mapStatus: a status that the backend does not know counts as pending.
MapStatus(s) ==
    IF s = "processing" THEN "PROCESSING"
    ELSE IF s = "completed" THEN "COMPLETED"
    ELSE IF s = "failed" THEN "FAILED"
    ELSE IF s = "refunded" THEN "REFUNDED"
    ELSE "PENDING"

IsFailure(rep) == rep.type = "PAYMENT_FAILED"

\* A failure report without a usable status means FAILED.
NewStatus(rep) ==
    IF IsFailure(rep) /\ MapStatus(rep.status) = "PENDING"
      THEN "FAILED"
      ELSE MapStatus(rep.status)

\* The row after the report. UpdateStatus leaves the failure reason alone; the
\* Update of a failure replaces it, by nothing when the report gives none.
Applied(rep, r) == RowWith(NewStatus(rep),
                           IF IsFailure(rep) THEN rep.reason ELSE r.reason)

\* The notices that the merchant is due: of a failure whatever its status is,
\* and of the other reports if they end the payment.
NoticeOf(rep) ==
    IF IsFailure(rep) THEN {"FAILED"}
                      ELSE {NewStatus(rep)} \cap {"COMPLETED", "REFUNDED"}

\* A payment without a merchant has nobody to notify.
Due(p, rep) == IF p \in Attributed THEN NoticeOf(rep) ELSE {}

-----------------------------------------------------------------------------
(* The indexer *)

\* The transaction to sign is known only once CreatePayment has answered.
OnChain(p) == p \in Foreign \/ creator[p] = "responded"

\* The next report of p is sent, or sent again because it was not answered.
Send(h, p) ==
    /\ pc[h] = "idle"
    /\ OnChain(p)
    /\ acked[p] < Len(Reports[p])
    /\ sends[p] < MaxSends
    /\ sends' = [sends EXCEPT ![p] = @ + 1]
    /\ dups' = IF sends[p] = 0 THEN dups ELSE dups + 1
    /\ pc' = [pc EXCEPT ![h] = "received"]
    /\ job' = [job EXCEPT ![h] = Work(p, acked[p] + 1, NoPayment)]
    /\ UNCHANGED <<payment, creation, events, notices, lock, acked, lost, faults, crashes>>

-----------------------------------------------------------------------------
(* ProcessIndexerWebhook, run by handler h *)

ReportOf(h) == Reports[job[h].p][job[h].i]

\* The handler returns; its transaction, if it had one, is over.
Return(h) ==
    /\ pc' = [pc EXCEPT ![h] = "idle"]
    /\ job' = [job EXCEPT ![h] = NoWork]
    /\ lock' = [p \in AllPayments |-> IF lock[p] = h THEN Nobody ELSE lock[p]]

\* GetByID finds no such payment: the transaction is rolled back.
NotFound(h) ==
    /\ pc[h] = "received"
    /\ payment[job[h].p] = NoPayment
    /\ Return(h)
    /\ UNCHANGED <<payment, creation, events, notices, lost, indexer, faults, crashes>>

\* SELECT ... FOR UPDATE waits until no other transaction holds the row.
LockRow(h) ==
    /\ pc[h] = "received"
    /\ payment[job[h].p] # NoPayment
    /\ lock[job[h].p] = Nobody
    /\ lock' = [lock EXCEPT ![job[h].p] = h]
    /\ job' = [job EXCEPT ![h] = Work(@.p, @.i, payment[@.p])]
    /\ pc' = [pc EXCEPT ![h] = "locked"]
    /\ UNCHANGED <<payment, creation, events, notices, lost, indexer, faults, crashes>>

\* Faulty variant: the repository writes outside the transaction.
UpdateStatusOutsideTx(h) ==
    /\ pc[h] = "locked"
    /\ job' = [job EXCEPT ![h] = Work(@.p, @.i, Applied(ReportOf(h), @.r))]
    /\ payment' = [payment EXCEPT ![job[h].p] = Applied(ReportOf(h), @)]
    /\ pc' = [pc EXCEPT ![h] = "updated"]
    /\ UNCHANGED <<creation, events, notices, lock, lost, indexer, faults, crashes>>

\* The new status (and, for a failure, the reason) is written in the
\* transaction: nobody else sees it before the commit.
UpdateStatus(h) ==
    /\ pc[h] = "locked"
    /\ job' = [job EXCEPT ![h] = Work(@.p, @.i, Applied(ReportOf(h), @.r))]
    /\ pc' = [pc EXCEPT ![h] = "updated"]
    /\ UNCHANGED <<payment, creation, events, notices, lock, lost, indexer, faults, crashes>>

\* The event is written and the transaction committed.
Commit(h) ==
    /\ pc[h] = "updated"
    /\ payment' = [payment EXCEPT ![job[h].p] = job[h].r]
    /\ events' = [events EXCEPT ![job[h].p] = Append(@, job[h].i)]
    /\ lock' = [lock EXCEPT ![job[h].p] = Nobody]
    /\ pc' = [pc EXCEPT ![h] = "committed"]
    /\ UNCHANGED <<creation, notices, job, lost, indexer, faults, crashes>>

\* Faulty variant: the error is logged and 200 is answered all the same.
RollBackAndAnswer(h) ==
    /\ pc[h] \in {"received", "locked", "updated"}
    /\ Fault
    /\ lock' = [p \in AllPayments |-> IF lock[p] = h THEN Nobody ELSE lock[p]]
    /\ pc' = [pc EXCEPT ![h] = "answering"]
    /\ UNCHANGED <<payment, creation, events, notices, job, lost, indexer, crashes>>

\* A statement of the transaction fails: rollback, and an error is answered.
RollBack(h) ==
    /\ pc[h] \in {"received", "locked", "updated"}
    /\ Fault
    /\ Return(h)
    /\ UNCHANGED <<payment, creation, events, notices, lost, indexer, crashes>>

\* Faulty variant: nothing is enqueued once the payment has moved on.
EnqueueIfCurrent(h) ==
    /\ pc[h] = "committed"
    /\ pc' = [pc EXCEPT ![h] = "answering"]
    /\ LET due == IF payment[job[h].p].status = NewStatus(ReportOf(h))
                    THEN Due(job[h].p, ReportOf(h)) ELSE {}
       IN  IF due = {}
             THEN UNCHANGED notices
             ELSE \E t \in due : notices' = [notices EXCEPT ![job[h].p] = Append(@, t)]
    /\ UNCHANGED <<payment, creation, events, lock, job, lost, indexer, faults, crashes>>

\* enqueueWebhookDelivery, outside the transaction; its error is dropped.
Enqueue(h) ==
    /\ pc[h] = "committed"
    /\ pc' = [pc EXCEPT ![h] = "answering"]
    /\ \/ /\ Due(job[h].p, ReportOf(h)) = {}
          /\ UNCHANGED <<notices, lost, faults>>
       \/ /\ \E t \in Due(job[h].p, ReportOf(h)) :
                notices' = [notices EXCEPT ![job[h].p] = Append(@, t)]
          /\ UNCHANGED <<lost, faults>>
       \/ /\ Due(job[h].p, ReportOf(h)) # {}
          /\ Fault
          /\ lost' = [lost EXCEPT ![job[h].p] = @ + 1]
          /\ UNCHANGED notices
    /\ UNCHANGED <<payment, creation, events, lock, job, indexer, crashes>>

\* 200: the indexer goes on to the next report, unless it already has, or the
\* answer is lost.
Answer(h) ==
    /\ pc[h] = "answering"
    /\ Return(h)
    /\ \/ /\ IF job[h].i = acked[job[h].p] + 1
               THEN /\ acked' = [acked EXCEPT ![job[h].p] = @ + 1]
                    /\ sends' = [sends EXCEPT ![job[h].p] = 0]
               ELSE UNCHANGED <<acked, sends>>
          /\ UNCHANGED faults
       \/ Fault /\ UNCHANGED <<acked, sends>>
    /\ UNCHANGED <<payment, creation, events, notices, lost, dups, crashes>>

-----------------------------------------------------------------------------
\* A notice that is due and not yet enqueued.
Owed(h) == pc[h] = "committed" /\ Due(job[h].p, ReportOf(h)) # {}

\* The process dies: open transactions are rolled back, requests are gone.
Crash ==
    /\ crashes < MaxCrashes
    /\ crashes' = crashes + 1
    /\ creator' = [p \in AllPayments |->
                      IF creator[p] \in {"inserted", "announced"} THEN "killed"
                                                                  ELSE creator[p]]
    /\ lock' = [p \in AllPayments |-> Nobody]
    /\ pc' = [h \in Handlers |-> "idle"]
    /\ job' = [h \in Handlers |-> NoWork]
    /\ lost' = [p \in AllPayments |->
                   lost[p] + Cardinality({h \in Handlers : Owed(h) /\ job[h].p = p})]
    /\ UNCHANGED <<payment, audit, events, notices, indexer, faults>>

CreateStep(p) == \/ InsertPayment(p)
                 \/ WriteCreatedEvent(p)
                 \/ BuildFails(p)
                 \/ Respond(p)

HandlerStep(h) == \/ NotFound(h)
                  \/ LockRow(h)
                  \/ UpdateStatus(h)
                  \/ Commit(h)
                  \/ RollBack(h)
                  \/ Enqueue(h)
                  \/ Answer(h)

Next == \/ \E p \in AllPayments : CreateStep(p)
        \/ \E h \in Handlers, p \in AllPayments : Send(h, p)
        \/ \E h \in Handlers : HandlerStep(h)
        \/ Crash

\* Every request that was received runs on. A row lock is granted in the order
\* of the requests for it, so a waiting handler gets it in the end (SF).
\* Nothing is assumed of the indexer or of the callers.
Fairness == \A h \in Handlers : /\ WF_vars(HandlerStep(h))
                                /\ SF_vars(LockRow(h))

Spec == Init /\ [][Next]_vars /\ Fairness

-----------------------------------------------------------------------------
(* Properties *)

\* The status column and the event log never disagree, although they are two
\* tables and handlers overlap: the status is the one that the last applied
\* report asked for (webhook_usecase.go, the transaction of steps 1 to 4).
StatusFromLastEvent ==
    \A p \in AllPayments :
        payment[p].status =
            IF events[p] # <<>> THEN NewStatus(Reports[p][events[p][Len(events[p])]])
            ELSE IF p \in Payments /\ creator[p] # "start" THEN "PENDING"
            ELSE "none"

\* The indexer moves on only past reports that are in the event log: an error
\* anywhere in the transaction keeps it from getting a 200.
AckedIsRecorded ==
    \A p \in AllPayments : \A i \in 1 .. acked[p] :
        \E n \in 1 .. Len(events[p]) : events[p][n] = i

\* Every applied report that the merchant must hear of has its row in
\* webhook_logs, or is about to get it, or is counted as lost: retries and
\* overlaps neither drop nor invent a notification.
NoticesAccounted ==
    \A p \in AllPayments :
        Cardinality({n \in DOMAIN events[p] : Due(p, Reports[p][events[p][n]]) # {}})
          = Len(notices[p]) + lost[p]
            + Cardinality({h \in Handlers : Owed(h) /\ job[h].p = p})

Rank(s) == CASE s = "none" -> 0 [] s = "PENDING" -> 1 [] s = "PROCESSING" -> 2
             [] s = "REFUNDED" -> 4 [] OTHER -> 3

\* How far a report says that the payment has come, in the indexer's own words.
Stage(rep) == IF rep.status = "processing" THEN 2
              ELSE IF rep.status = "refunded" THEN 4
              ELSE IF rep.status \in {"completed", "failed"} \/ IsFailure(rep) THEN 3
              ELSE 1

\* The chain moves a payment forward: no report is of an earlier stage than one
\* that went before it.
ChainMovesForward ==
    \A p \in AllPayments : \A i, j \in 1 .. Len(Reports[p]) :
        i <= j => Stage(Reports[p][i]) <= Stage(Reports[p][j])

\* With duplicates a payment goes back only to a status that it had before:
\* what is applied late is a report that was applied already.
BackOnlyToRecorded ==
    [][\A p \in AllPayments :
          Rank(payment'[p].status) < Rank(payment[p].status) =>
              \E n \in 1 .. Len(events[p]) : events[p][n] = events'[p][Len(events'[p])]]_vars

=============================================================================
