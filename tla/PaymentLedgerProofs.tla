------------------------- MODULE PaymentLedgerProofs -------------------------
(***************************************************************************)
(* TLAPS proofs about PaymentLedger, for every set of payments, every list *)
(* of reports and any number of handlers: the status column agrees with    *)
(* the event log, and what the indexer has acknowledged is in that log.    *)
(*                                                                         *)
(* Neither is inductive alone. Between the lock and the commit the new row *)
(* exists only in the handler, so the invariant says what a handler holds  *)
(* at each place: that it alone has the lock, that the row it will write   *)
(* is the one its report asks for, and, after the commit, that its report  *)
(* is in the log.                                                          *)
(***************************************************************************)
EXTENDS PaymentLedger, FiniteSetTheorems, TLAPS

Recorded(p, i) == \E n \in 1 .. Len(events[p]) : events[p][n] = i

\* Each handler's work is a report that the indexer has reached.
WorkInv ==
    \A h \in Handlers : pc[h] # "idle" =>
        /\ job[h].p \in AllPayments
        /\ job[h].i \in 1 .. Len(Reports[job[h].p])
        /\ job[h].i <= acked[job[h].p] + 1

\* The lock is held from LockRow to the end of the transaction, on a payment
\* that exists.
LockInv ==
    \A h \in Handlers : pc[h] \in {"locked", "updated"} =>
        /\ lock[job[h].p] = h
        /\ job[h].p \in Payments
        /\ creator[job[h].p] # "start"

\* The row to be written has the status that the report asks for.
UpdatedInv ==
    \A h \in Handlers : pc[h] = "updated" =>
        job[h].r.status = NewStatus(ReportOf(h))

CommittedInv ==
    \A h \in Handlers : pc[h] \in {"committed", "answering"} =>
        Recorded(job[h].p, job[h].i)

\* The log holds reports of the payment only, and the indexer stays in range.
RangeInv ==
    \A p \in AllPayments :
        /\ acked[p] <= Len(Reports[p])
        /\ \A n \in 1 .. Len(events[p]) : events[p][n] \in 1 .. Len(Reports[p])

\* Before InsertPayment there is nothing, and it is only for this backend's own
\* payments.
StartInv ==
    \A p \in AllPayments :
        IF creator[p] = "start" THEN payment[p] = NoPayment /\ events[p] = <<>>
                                ELSE p \in Payments

IInv == /\ TypeOK
        /\ StartInv
        /\ WorkInv
        /\ LockInv
        /\ UpdatedInv
        /\ CommittedInv
        /\ RangeInv
        /\ StatusFromLastEvent
        /\ AckedIsRecorded

\* A report asks for a status that the payments table knows (mapStatus).
LEMMA NewStatusType == ASSUME NEW rep \in Report
                       PROVE  /\ NewStatus(rep) \in PaymentStatus
                              /\ NewStatus(rep) # "none"
<1>1. MapStatus(rep.status) \in PaymentStatus
  BY DEF Report, IndexerStatus, PaymentStatus, MapStatus
<1> QED  BY <1>1 DEF NewStatus, PaymentStatus

\* The row that a report produces is a row, with the status it asks for.
LEMMA AppliedType == ASSUME NEW rep \in Report, NEW r \in Row
                     PROVE  /\ Applied(rep, r) \in Row
                            /\ Applied(rep, r).status = NewStatus(rep)
<1>1. rep.reason \in BOOLEAN /\ r.reason \in BOOLEAN
  BY DEF Report, Row
<1>2. (IF IsFailure(rep) THEN rep.reason ELSE r.reason) \in BOOLEAN
  BY <1>1
<1> QED  BY <1>2, NewStatusType DEF Applied, RowWith, Row

\* Appending to a log keeps what it held and adds the new last entry.
LEMMA LogAppend == ASSUME NEW S, NEW s \in Seq(S), NEW e \in S
                   PROVE  /\ Append(s, e) \in Seq(S)
                          /\ Len(Append(s, e)) = Len(s) + 1
                          /\ Append(s, e)[Len(s) + 1] = e
                          /\ \A n \in 1 .. Len(s) : Append(s, e)[n] = s[n]
  OBVIOUS

\* The report a handler works on.
LEMMA ReportType == ASSUME TypeOK, WorkInv, NEW h \in Handlers, pc[h] # "idle"
                    PROVE  ReportOf(h) \in Report
<1>1. Reports[job[h].p] \in Seq(Report)
  BY ReportsAssumption DEF WorkInv
<1> QED  BY <1>1 DEF WorkInv, ReportOf

LEMMA InitInv == Init => IInv
<1> SUFFICES ASSUME Init PROVE IInv
  OBVIOUS
<1>1. TypeOK
  BY DEF Init, TypeOK, NoPayment, RowWith, Row, NoWork, Work
<1>2. WorkInv /\ LockInv /\ UpdatedInv /\ CommittedInv
  BY DEF Init, WorkInv, LockInv, UpdatedInv, CommittedInv
<1>3. RangeInv /\ AckedIsRecorded
  BY ReportsAssumption DEF Init, RangeInv, AckedIsRecorded
<1>4. StatusFromLastEvent /\ StartInv
  BY DEF Init, StatusFromLastEvent, StartInv, NoPayment, RowWith
<1> QED  BY <1>1, <1>2, <1>3, <1>4 DEF IInv

-----------------------------------------------------------------------------
(* The creation of a payment *)

LEMMA CreateStepInv == ASSUME IInv, NEW p \in AllPayments, CreateStep(p)
                       PROVE  IInv'
<1> USE DEF IInv
<1>1. CASE InsertPayment(p)
  <2>1. TypeOK'
    BY <1>1 DEF InsertPayment, TypeOK, RowWith, Row, PaymentStatus,
                processing, indexer
  <2>2. (WorkInv /\ LockInv /\ UpdatedInv /\ CommittedInv /\ RangeInv /\ AckedIsRecorded)'
    BY <1>1 DEF InsertPayment, TypeOK, WorkInv, LockInv, UpdatedInv, ReportOf,
                CommittedInv, Recorded, RangeInv, AckedIsRecorded, processing, indexer
  <2>3. StatusFromLastEvent' /\ StartInv'
    BY <1>1 DEF InsertPayment, TypeOK, RowWith, StatusFromLastEvent, StartInv,
                processing, AllPayments
  <2> QED  BY <2>1, <2>2, <2>3
<1>2. CASE WriteCreatedEvent(p) \/ BuildFails(p) \/ Respond(p)
  <2>0. /\ faults' \in Nat
        /\ audit' \in [AllPayments -> SUBSET CreationEvents]
    <3>0. \A e \in CreationEvents : audit[p] \cup {e} \in SUBSET CreationEvents
      BY DEF TypeOK
    <3>1. \/ UNCHANGED audit
          \/ \E e \in CreationEvents : audit' = [audit EXCEPT ![p] = @ \cup {e}]
      BY <1>2 DEF WriteCreatedEvent, BuildFails, Respond, CreationEvents
    <3>2. faults' \in {faults, faults + 1}
      BY <1>2 DEF WriteCreatedEvent, BuildFails, Respond, Fault
    <3>3. faults' \in Nat
      BY <3>2 DEF TypeOK
    <3>4. CASE UNCHANGED audit
      BY <3>3, <3>4 DEF TypeOK
    <3>5. CASE \E e \in CreationEvents : audit' = [audit EXCEPT ![p] = @ \cup {e}]
      BY <3>0, <3>3, <3>5 DEF TypeOK
    <3> QED  BY <3>1, <3>4, <3>5
  <2>1. /\ creator[p] \in {"inserted", "announced"}
        /\ \E c \in {"announced", "rejected", "responded"} :
              creator' = [creator EXCEPT ![p] = c]
        /\ UNCHANGED <<payment, processing, indexer, crashes>>
    BY <1>2 DEF WriteCreatedEvent, BuildFails, Respond
  <2>2. TypeOK'
    BY <2>0, <2>1 DEF TypeOK, processing, indexer
  <2>3. (WorkInv /\ LockInv /\ UpdatedInv /\ CommittedInv /\ RangeInv /\ AckedIsRecorded)'
    BY <2>1 DEF TypeOK, WorkInv, LockInv, UpdatedInv, ReportOf,
                CommittedInv, Recorded, RangeInv, AckedIsRecorded, processing, indexer
  <2>4. StatusFromLastEvent' /\ StartInv'
    BY <2>1 DEF TypeOK, StatusFromLastEvent, StartInv, processing
  <2> QED  BY <2>2, <2>3, <2>4
<1> QED  BY <1>1, <1>2 DEF CreateStep

-----------------------------------------------------------------------------
(* The handlers *)

\* Actions that leave the payments, the logs and the indexer alone and only
\* move handler h to a place where it holds no lock.
LEMMA ReleaseInv == ASSUME IInv, NEW h \in Handlers, Return(h),
                           faults' \in Nat,
                           UNCHANGED <<payment, creation, events, notices, lost,
                                       indexer, crashes>>
                    PROVE  IInv'
<1> USE DEF IInv
<1>1. TypeOK'
  BY DEF Return, TypeOK, creation, indexer, NoWork, Work, NoPayment, RowWith, Row
<1>2. \A g \in Handlers : /\ pc'[g] # "idle" => g # h
                          /\ g # h => pc'[g] = pc[g] /\ job'[g] = job[g]
  BY DEF Return, TypeOK
<1>3. \A g \in Handlers, q \in AllPayments : g # h /\ lock[q] = g => lock'[q] = g
  BY DEF Return
<1>4. (WorkInv /\ UpdatedInv /\ CommittedInv)'
  BY <1>2 DEF WorkInv, UpdatedInv, ReportOf, CommittedInv, Recorded, indexer
<1>5. LockInv'
  BY <1>2, <1>3 DEF LockInv, creation, AllPayments
<1>6. (RangeInv /\ AckedIsRecorded /\ StatusFromLastEvent /\ StartInv)'
  BY DEF RangeInv, AckedIsRecorded, StatusFromLastEvent, StartInv, creation, indexer
<1> QED  BY <1>1, <1>4, <1>5, <1>6

LEMMA LockRowInv == ASSUME IInv, NEW h \in Handlers, LockRow(h)
                    PROVE  IInv'
<1> USE DEF IInv
<1>1. job[h].p \in AllPayments /\ payment[job[h].p] \in Row
  BY DEF LockRow, WorkInv, TypeOK
<1>2. TypeOK'
  BY <1>1 DEF LockRow, TypeOK, Work, creation, indexer
<1>3. creator[job[h].p] # "start" /\ job[h].p \in Payments
  BY <1>1 DEF LockRow, StartInv
<1>4. /\ job'[h].p = job[h].p /\ job'[h].i = job[h].i /\ pc'[h] = "locked"
      /\ lock'[job[h].p] = h
      /\ \A g \in Handlers : g # h => pc'[g] = pc[g] /\ job'[g] = job[g]
      /\ \A q \in AllPayments : q # job[h].p => lock'[q] = lock[q]
  BY <1>1 DEF LockRow, TypeOK, Work
<1>5. WorkInv' /\ UpdatedInv' /\ CommittedInv'
  <2>1. WorkInv'
    BY <1>4 DEF LockRow, WorkInv, indexer
  <2>2. UpdatedInv'
    BY <1>4 DEF LockRow, UpdatedInv, ReportOf
  <2>3. CommittedInv'
    BY <1>4 DEF LockRow, CommittedInv, Recorded
  <2> QED  BY <2>1, <2>2, <2>3
<1>6. LockInv'
  <2> SUFFICES ASSUME NEW g \in Handlers, pc'[g] \in {"locked", "updated"}
               PROVE  /\ lock'[job'[g].p] = g
                      /\ job'[g].p \in Payments
                      /\ creator'[job'[g].p] # "start"
    BY DEF LockInv
  <2>1. CASE g = h
    BY <2>1, <1>3, <1>4 DEF LockRow, creation
  <2>2. CASE g # h
    <3>1. /\ lock[job[g].p] = g /\ job[g].p \in Payments
          /\ creator[job[g].p] # "start"
      BY <2>2, <1>4 DEF LockInv
    <3>2. job[g].p # job[h].p
      BY <3>1, NobodyAssumption DEF LockRow
    <3> QED  BY <2>2, <3>1, <3>2, <1>4 DEF LockRow, creation, AllPayments
  <2> QED  BY <2>1, <2>2
<1>7. (RangeInv /\ AckedIsRecorded /\ StatusFromLastEvent /\ StartInv)'
  BY DEF LockRow, RangeInv, AckedIsRecorded, StatusFromLastEvent, StartInv, creation, indexer
<1> QED  BY <1>2, <1>5, <1>6, <1>7

LEMMA UpdateStatusInv == ASSUME IInv, NEW h \in Handlers, UpdateStatus(h)
                         PROVE  IInv'
<1> USE DEF IInv
<1>1. /\ ReportOf(h) \in Report
      /\ job[h].r \in Row
      /\ job[h].p \in AllPayments
  BY ReportType DEF UpdateStatus, TypeOK, WorkInv
<1>2. /\ Applied(ReportOf(h), job[h].r) \in Row
      /\ Applied(ReportOf(h), job[h].r).status = NewStatus(ReportOf(h))
  BY <1>1, AppliedType
<1>3. TypeOK'
  BY <1>1, <1>2 DEF UpdateStatus, TypeOK, Work, creation, indexer
<1>4. /\ job'[h].p = job[h].p /\ job'[h].i = job[h].i /\ pc'[h] = "updated"
      /\ job'[h].r.status = NewStatus(ReportOf(h))
      /\ \A g \in Handlers : g # h => pc'[g] = pc[g] /\ job'[g] = job[g]
  BY <1>2 DEF UpdateStatus, TypeOK, Work
<1>5. WorkInv' /\ CommittedInv' /\ LockInv' /\ UpdatedInv'
  <2>1. WorkInv'
    BY <1>4 DEF UpdateStatus, WorkInv, indexer
  <2>2. CommittedInv'
    BY <1>4 DEF UpdateStatus, CommittedInv, Recorded
  <2>3. LockInv'
    BY <1>4 DEF UpdateStatus, LockInv, creation
  <2>4. UpdatedInv'
    BY <1>4 DEF UpdatedInv, ReportOf
  <2> QED  BY <2>1, <2>2, <2>3, <2>4
<1>6. (RangeInv /\ AckedIsRecorded /\ StatusFromLastEvent /\ StartInv)'
  BY DEF UpdateStatus, RangeInv, AckedIsRecorded, StatusFromLastEvent, StartInv,
         creation, indexer
<1> QED  BY <1>3, <1>5, <1>6

LEMMA CommitInv == ASSUME IInv, NEW h \in Handlers, Commit(h)
                   PROVE  IInv'
<1> USE DEF IInv
<1> DEFINE p == job[h].p
           i == job[h].i
<1>1. /\ p \in AllPayments /\ p \in Payments /\ creator[p] # "start"
      /\ i \in Nat \ {0} /\ i \in 1 .. Len(Reports[p])
      /\ lock[p] = h
      /\ job[h].r \in Row
      /\ job[h].r.status = NewStatus(Reports[p][i])
      /\ events[p] \in Seq(Nat \ {0})
  <2>1. Len(Reports[p]) \in Nat
    BY ReportsAssumption DEF Commit, WorkInv
  <2> QED  BY <2>1 DEF Commit, TypeOK, WorkInv, LockInv, UpdatedInv, ReportOf
<1>2. /\ events'[p] \in Seq(Nat \ {0})
      /\ Len(events'[p]) = Len(events[p]) + 1
      /\ events'[p][Len(events[p]) + 1] = i
      /\ \A n \in 1 .. Len(events[p]) : events'[p][n] = events[p][n]
      /\ Len(events[p]) \in Nat
      /\ \A q \in AllPayments : q # p => events'[q] = events[q] /\ payment'[q] = payment[q]
  BY <1>1, LogAppend DEF Commit, TypeOK
<1>3. TypeOK'
  BY <1>1, <1>2 DEF Commit, TypeOK, creation, indexer
<1>4. \A q \in AllPayments, k \in Nat : Recorded(q, k) => Recorded(q, k)'
  <2> SUFFICES ASSUME NEW q \in AllPayments, NEW k \in Nat,
                      NEW n \in 1 .. Len(events[q]), events[q][n] = k
               PROVE  \E m \in 1 .. Len(events'[q]) : events'[q][m] = k
    BY DEF Recorded
  <2>1. n \in 1 .. Len(events'[q]) /\ events'[q][n] = k
    <3>1. CASE q = p
      <4>1. n \in 1 .. Len(events[p]) /\ events[p][n] = k
        BY <3>1
      <4>2. n \in 1 .. Len(events'[p])
        BY <4>1, <1>2
      <4>3. events'[p][n] = k
        BY <4>1, <1>2
      <4> QED  BY <3>1, <4>2, <4>3
    <3>2. CASE q # p
      BY <3>2, <1>1, <1>2
    <3> QED  BY <3>1, <3>2
  <2> QED  BY <2>1
<1>5. Recorded(p, i)'
  <2>1. Len(events[p]) + 1 \in 1 .. Len(events'[p])
    BY <1>2
  <2>2. \E m \in 1 .. Len(events'[p]) : events'[p][m] = i
    BY <2>1, <1>2
  <2> QED  BY <2>2 DEF Recorded, Commit
<1>6. \A g \in Handlers : g # h => pc'[g] = pc[g]
  BY DEF Commit, TypeOK
<1>7. WorkInv' /\ UpdatedInv'
  BY <1>6 DEF Commit, TypeOK, WorkInv, UpdatedInv, ReportOf, indexer
<1>8. CommittedInv'
  <2> SUFFICES ASSUME NEW g \in Handlers, pc'[g] \in {"committed", "answering"}
               PROVE  Recorded(job[g].p, job[g].i)'
    BY DEF CommittedInv, Commit
  <2>1. CASE g = h
    BY <2>1, <1>5 DEF Commit
  <2>2. CASE g # h
    <3>1. Recorded(job[g].p, job[g].i) /\ job[g].p \in AllPayments /\ job[g].i \in Nat
      BY <2>2, <1>6 DEF CommittedInv, WorkInv, TypeOK
    <3> QED  BY <3>1, <1>4 DEF Commit
  <2> QED  BY <2>1, <2>2
<1>9. LockInv'
  <2> SUFFICES ASSUME NEW g \in Handlers, pc'[g] \in {"locked", "updated"}
               PROVE  /\ lock'[job[g].p] = g
                      /\ job[g].p \in Payments
                      /\ creator[job[g].p] # "start"
    BY DEF LockInv, Commit, creation
  <2>1. g # h
    BY DEF Commit, TypeOK
  <2>2. /\ lock[job[g].p] = g /\ job[g].p \in Payments
        /\ creator[job[g].p] # "start"
    BY <2>1, <1>6 DEF LockInv
  <2> QED  BY <2>1, <2>2, <1>1 DEF Commit, TypeOK, AllPayments
<1>10. RangeInv'
  BY <1>1, <1>2 DEF Commit, RangeInv, indexer
<1>11. StatusFromLastEvent'
  <2>1. /\ events'[p] # <<>>
        /\ events'[p][Len(events'[p])] = i
        /\ payment'[p].status = NewStatus(Reports[p][i])
    BY <1>1, <1>2 DEF Commit, TypeOK
  <2> SUFFICES ASSUME NEW q \in AllPayments
               PROVE  payment'[q].status =
                        IF events'[q] # <<>>
                          THEN NewStatus(Reports[q][events'[q][Len(events'[q])]])
                        ELSE IF q \in Payments /\ creator[q] # "start" THEN "PENDING"
                        ELSE "none"
    BY DEF StatusFromLastEvent, Commit, creation
  <2>2. CASE q = p
    BY <2>1, <2>2
  <2>3. CASE q # p
    BY <2>3, <1>2 DEF StatusFromLastEvent
  <2> QED  BY <2>2, <2>3
<1>12. StartInv'
  BY <1>1, <1>2 DEF Commit, StartInv, creation
<1>13. AckedIsRecorded'
  <2> SUFFICES ASSUME NEW q \in AllPayments, NEW k \in 1 .. acked[q]
               PROVE  Recorded(q, k)'
    BY DEF AckedIsRecorded, Recorded, Commit, indexer
  <2>1. Recorded(q, k) /\ k \in Nat
    BY DEF AckedIsRecorded, Recorded, TypeOK
  <2> QED  BY <2>1, <1>4
<1> QED  BY <1>3, <1>7, <1>8, <1>9, <1>10, <1>11, <1>12, <1>13

\* Actions after the commit: only handler h, the notices and the histories move.
LEMMA EnqueueInv == ASSUME IInv, NEW h \in Handlers, Enqueue(h)
                    PROVE  IInv'
<1> USE DEF IInv
<1>1. job[h].p \in AllPayments /\ ReportOf(h) \in Report
  BY ReportType DEF Enqueue, WorkInv
<1>2. \A t \in Due(job[h].p, ReportOf(h)) : t \in PaymentStatus
  BY <1>1 DEF Due, NoticeOf, PaymentStatus
<1>3. notices' \in [AllPayments -> Seq(PaymentStatus)]
  <2>1. CASE UNCHANGED notices
    BY <2>1 DEF TypeOK
  <2>2. CASE \E t \in Due(job[h].p, ReportOf(h)) :
                notices' = [notices EXCEPT ![job[h].p] = Append(@, t)]
    <3>1. PICK t \in PaymentStatus :
                notices' = [notices EXCEPT ![job[h].p] = Append(@, t)]
      BY <2>2, <1>2
    <3>2. Append(notices[job[h].p], t) \in Seq(PaymentStatus)
      BY <1>1 DEF TypeOK
    <3> QED  BY <3>1, <3>2 DEF TypeOK
  <2> QED  BY <2>1, <2>2 DEF Enqueue
<1>4. lost' \in [AllPayments -> Nat] /\ faults' \in Nat
  <2>1. CASE UNCHANGED <<lost, faults>>
    BY <2>1 DEF TypeOK
  <2>2. CASE Fault /\ lost' = [lost EXCEPT ![job[h].p] = @ + 1]
    BY <2>2, <1>1 DEF Fault, TypeOK
  <2> QED  BY <2>1, <2>2 DEF Enqueue
<1>5. TypeOK'
  BY <1>3, <1>4 DEF Enqueue, TypeOK, creation, indexer
<1>6. /\ pc'[h] = "answering"
      /\ \A g \in Handlers : g # h => pc'[g] = pc[g]
  BY DEF Enqueue, TypeOK
<1>7. WorkInv' /\ UpdatedInv' /\ CommittedInv' /\ LockInv'
  <2>1. WorkInv'
    BY DEF Enqueue, TypeOK, WorkInv, indexer
  <2>2. CommittedInv'
    BY <1>6 DEF Enqueue, CommittedInv, Recorded
  <2>3. LockInv'
    BY <1>6 DEF Enqueue, LockInv, creation
  <2>4. UpdatedInv'
    BY <1>6 DEF Enqueue, UpdatedInv, ReportOf
  <2> QED  BY <2>1, <2>2, <2>3, <2>4
<1>8. (RangeInv /\ AckedIsRecorded /\ StatusFromLastEvent /\ StartInv)'
  BY DEF Enqueue, RangeInv, AckedIsRecorded, StatusFromLastEvent, StartInv,
         creation, indexer
<1> QED  BY <1>5, <1>7, <1>8

LEMMA AnswerInv == ASSUME IInv, NEW h \in Handlers, Answer(h)
                   PROVE  IInv'
<1> USE DEF IInv
<1>1. CASE UNCHANGED <<acked, sends>>
  <2>1. faults' \in Nat /\ UNCHANGED indexer
    BY <1>1 DEF Answer, Fault, TypeOK, indexer
  <2> QED  BY <2>1, ReleaseInv DEF Answer
<1>2. CASE /\ job[h].i = acked[job[h].p] + 1
           /\ acked' = [acked EXCEPT ![job[h].p] = @ + 1]
           /\ sends' = [sends EXCEPT ![job[h].p] = 0]
           /\ UNCHANGED faults
  <2> DEFINE p == job[h].p
  <2>1. /\ p \in AllPayments /\ job[h].i \in 1 .. Len(Reports[p])
        /\ Recorded(p, job[h].i)
        /\ acked[p] \in Nat
    BY DEF Answer, WorkInv, CommittedInv, TypeOK
  <2>2. /\ acked'[p] = job[h].i
        /\ acked'[p] = acked[p] + 1
        /\ \A q \in AllPayments : q # p => acked'[q] = acked[q]
    BY <1>2, <2>1 DEF TypeOK
  <2>3. TypeOK'
    BY <1>2, <2>1 DEF Answer, Return, TypeOK, creation, indexer, NoWork, Work,
                      NoPayment, RowWith, Row
  <2>4. \A g \in Handlers : /\ pc'[g] # "idle" => g # h
                            /\ g # h => pc'[g] = pc[g] /\ job'[g] = job[g]
    BY DEF Answer, Return, TypeOK
  <2>5. \A g \in Handlers, q \in AllPayments : g # h /\ lock[q] = g => lock'[q] = g
    BY DEF Answer, Return
  <2>6. WorkInv'
    <3> SUFFICES ASSUME NEW g \in Handlers, pc'[g] # "idle"
                 PROVE  /\ job[g].p \in AllPayments
                        /\ job[g].i \in 1 .. Len(Reports[job[g].p])
                        /\ job[g].i <= acked'[job[g].p] + 1
      BY <2>4 DEF WorkInv
    <3>1. /\ job[g].p \in AllPayments
          /\ job[g].i \in 1 .. Len(Reports[job[g].p])
          /\ job[g].i <= acked[job[g].p] + 1
          /\ acked[job[g].p] \in Nat
          /\ job[g].i \in Nat
      BY <2>4 DEF WorkInv, TypeOK
    <3> QED  BY <3>1, <2>2
  <2>7. (UpdatedInv /\ CommittedInv)'
    BY <2>4 DEF Answer, UpdatedInv, ReportOf, CommittedInv, Recorded
  <2>8. LockInv'
    BY <2>4, <2>5 DEF Answer, LockInv, creation, AllPayments
  <2>9. RangeInv'
    BY <2>1, <2>2 DEF Answer, RangeInv
  <2>10. (StatusFromLastEvent /\ StartInv)'
    BY DEF Answer, StatusFromLastEvent, StartInv, creation
  <2>11. AckedIsRecorded'
    <3> SUFFICES ASSUME NEW q \in AllPayments, NEW k \in 1 .. acked'[q]
                 PROVE  Recorded(q, k)
      BY DEF AckedIsRecorded, Recorded, Answer
    <3>1. CASE q = p /\ k = job[h].i
      BY <3>1, <2>1
    <3>2. CASE ~(q = p /\ k = job[h].i)
      <4>1. k \in 1 .. acked[q]
        BY <3>2, <2>1, <2>2 DEF TypeOK
      <4> QED  BY <4>1 DEF AckedIsRecorded, Recorded
    <3> QED  BY <3>1, <3>2
  <2> QED  BY <2>3, <2>6, <2>7, <2>8, <2>9, <2>10, <2>11
<1> QED  BY <1>1, <1>2 DEF Answer

LEMMA HandlerStepInv == ASSUME IInv, NEW h \in Handlers, HandlerStep(h)
                        PROVE  IInv'
<1>1. CASE NotFound(h)
  <2>1. faults' \in Nat
    BY <1>1 DEF NotFound, IInv, TypeOK
  <2> QED  BY <1>1, <2>1, ReleaseInv DEF NotFound
<1>2. CASE RollBack(h)
  <2>1. faults' \in Nat
    BY <1>2 DEF RollBack, Fault, IInv, TypeOK
  <2> QED  BY <1>2, <2>1, ReleaseInv DEF RollBack
<1> QED  BY <1>1, <1>2, LockRowInv, UpdateStatusInv, CommitInv, EnqueueInv,
            AnswerInv DEF HandlerStep

-----------------------------------------------------------------------------
(* The indexer, crashes, and the whole *)

LEMMA SendInv == ASSUME IInv, NEW h \in Handlers, NEW p \in AllPayments, Send(h, p)
                 PROVE  IInv'
<1> USE DEF IInv
<1>1. acked[p] \in Nat /\ Len(Reports[p]) \in Nat
  BY ReportsAssumption DEF TypeOK
<1>2. /\ job'[h].p = p /\ job'[h].i = acked[p] + 1 /\ pc'[h] = "received"
      /\ \A g \in Handlers : g # h => pc'[g] = pc[g] /\ job'[g] = job[g]
  BY DEF Send, TypeOK, Work
<1>3. TypeOK'
  BY <1>1 DEF Send, TypeOK, creation, Work, NoPayment, RowWith, Row
<1>4. WorkInv'
  BY <1>1, <1>2 DEF Send, WorkInv
<1>5. UpdatedInv' /\ CommittedInv' /\ LockInv'
  BY <1>2 DEF Send, UpdatedInv, ReportOf, CommittedInv, Recorded, LockInv, creation
<1>6. (RangeInv /\ AckedIsRecorded /\ StatusFromLastEvent /\ StartInv)'
  BY DEF Send, RangeInv, AckedIsRecorded, StatusFromLastEvent, StartInv, creation
<1> QED  BY <1>3, <1>4, <1>5, <1>6

LEMMA CrashInv == ASSUME IInv, Crash
                  PROVE  IInv'
<1> USE DEF IInv
<1>1. creator' \in [AllPayments -> {"start", "inserted", "announced",
                                    "responded", "rejected", "killed"}]
  BY DEF Crash, TypeOK
<1>2. lost' \in [AllPayments -> Nat]
  <2> SUFFICES ASSUME NEW p \in AllPayments
               PROVE  lost[p] + Cardinality({h \in Handlers : Owed(h) /\ job[h].p = p}) \in Nat
    BY DEF Crash
  <2>1. IsFiniteSet({h \in Handlers : Owed(h) /\ job[h].p = p})
    BY HandlersAssumption, FS_Subset
  <2>2. Cardinality({h \in Handlers : Owed(h) /\ job[h].p = p}) \in Nat
    BY <2>1, FS_CardinalityType
  <2> QED  BY <2>2 DEF TypeOK
<1>3. TypeOK'
  BY <1>1, <1>2 DEF Crash, TypeOK, indexer, NoWork, Work, NoPayment, RowWith, Row
<1>4. \A h \in Handlers : pc'[h] = "idle"
  BY DEF Crash
<1>5. WorkInv' /\ UpdatedInv' /\ CommittedInv' /\ LockInv'
  BY <1>4 DEF WorkInv, UpdatedInv, CommittedInv, LockInv
<1>6. \A p \in AllPayments : creator'[p] = "start" <=> creator[p] = "start"
  BY DEF Crash, TypeOK
<1>7. (StatusFromLastEvent /\ StartInv)'
  BY <1>6 DEF Crash, StatusFromLastEvent, StartInv
<1>8. (RangeInv /\ AckedIsRecorded)'
  BY DEF Crash, RangeInv, AckedIsRecorded, indexer
<1> QED  BY <1>3, <1>5, <1>7, <1>8

\* The invariant holds of every behaviour, whatever the indexer sends again and
\* wherever errors and crashes fall.
THEOREM LedgerInvariance == Spec => []IInv
<1>1. Init => IInv
  BY InitInv
<1>2. IInv /\ [Next]_vars => IInv'
  <2> SUFFICES ASSUME IInv, [Next]_vars PROVE IInv'
    OBVIOUS
  <2>1. CASE Next
    BY <2>1, CreateStepInv, SendInv, HandlerStepInv, CrashInv DEF Next
  <2>2. CASE UNCHANGED vars
    BY <2>2 DEF vars, IInv, TypeOK, StartInv, WorkInv, LockInv, UpdatedInv, ReportOf,
                CommittedInv, Recorded, RangeInv, StatusFromLastEvent, AckedIsRecorded
  <2> QED  BY <2>1, <2>2
<1> QED  BY <1>1, <1>2, PTL DEF Spec

\* Every reachable state is well typed.
THEOREM LedgerTypeCorrect == Spec => []TypeOK
<1>1. IInv => TypeOK
  BY DEF IInv
<1> QED  BY <1>1, LedgerInvariance, PTL

\* The payments table and the event log always agree on the status, for any
\* number of overlapping requests.
THEOREM StatusCorrect == Spec => []StatusFromLastEvent
<1>1. IInv => StatusFromLastEvent
  BY DEF IInv
<1> QED  BY <1>1, LedgerInvariance, PTL

\* The indexer is told 200 only for reports that were committed.
THEOREM AckedCorrect == Spec => []AckedIsRecorded
<1>1. IInv => AckedIsRecorded
  BY DEF IInv
<1> QED  BY <1>1, LedgerInvariance, PTL

-----------------------------------------------------------------------------
(* Notices: one for each applied report that is due one *)

\* The entries of the log that the merchant of p must hear of.
Told(p) == {n \in DOMAIN events[p] : Due(p, Reports[p][events[p][n]]) # {}}

\* The handlers that still owe p a notice.
Owing(p) == {h \in Handlers : Owed(h) /\ job[h].p = p}

LEMMA FiniteAccounts == ASSUME TypeOK, NEW p \in AllPayments
                        PROVE  /\ IsFiniteSet(Told(p)) /\ Cardinality(Told(p)) \in Nat
                               /\ IsFiniteSet(Owing(p)) /\ Cardinality(Owing(p)) \in Nat
<1>1. Len(events[p]) \in Nat /\ DOMAIN events[p] = 1 .. Len(events[p])
  BY DEF TypeOK
<1>2. IsFiniteSet(1 .. Len(events[p]))
  BY <1>1, FS_Interval
<1>3. IsFiniteSet(Told(p))
  BY <1>1, <1>2, FS_Subset DEF Told
<1>4. IsFiniteSet(Owing(p))
  BY HandlersAssumption, FS_Subset DEF Owing
<1> QED BY <1>3, <1>4, FS_CardinalityType

LEMMA CardinalityOfSame == ASSUME NEW S, NEW T, IsFiniteSet(S), NEW x, x \notin S,
                                  NEW b \in BOOLEAN, T = IF b THEN S \cup {x} ELSE S
                           PROVE  Cardinality(T) = Cardinality(S) + (IF b THEN 1 ELSE 0)
<1>1. Cardinality(S) \in Nat
  BY FS_CardinalityType
<1>2. CASE b
  BY <1>1, <1>2, FS_AddElement
<1>3. CASE ~b
  BY <1>1, <1>3
<1> QED BY <1>2, <1>3

LEMMA NoticesStep == IInv /\ IInv' /\ NoticesAccounted /\ [Next]_vars => NoticesAccounted'
<1> SUFFICES ASSUME IInv, IInv', NoticesAccounted, [Next]_vars PROVE NoticesAccounted'
  OBVIOUS
<1>t. TypeOK /\ TypeOK' /\ WorkInv
  BY DEF IInv
<1>a. \A p \in AllPayments :
          /\ Cardinality(Told(p)) = Len(notices[p]) + lost[p] + Cardinality(Owing(p))
          /\ Len(notices[p]) \in Nat /\ lost[p] \in Nat
  <2>1. \A p \in AllPayments :
            Cardinality(Told(p)) = Len(notices[p]) + lost[p] + Cardinality(Owing(p))
    BY Zenon DEF NoticesAccounted, Told, Owing
  <2>2. \A p \in AllPayments : Len(notices[p]) \in Nat /\ lost[p] \in Nat
    BY <1>t DEF TypeOK
  <2> QED BY <2>1, <2>2
<1>g. ASSUME \A p \in AllPayments :
                 Cardinality(Told(p)') = Len(notices'[p]) + lost'[p] + Cardinality(Owing(p)')
      PROVE  NoticesAccounted'
  BY <1>g DEF NoticesAccounted, Told, Owing
\* Steps that neither apply a report nor settle what is owed.
<1>k. ASSUME UNCHANGED <<events, notices, lost>>,
             \A h \in Handlers : /\ Owed(h)' <=> Owed(h)
                                 /\ Owed(h) => job'[h].p = job[h].p
      PROVE  NoticesAccounted'
  <2>1. \A p \in AllPayments : Owing(p)' = Owing(p)
    BY <1>k DEF Owing
  <2>2. \A p \in AllPayments : Told(p)' = Told(p)
    BY <1>k DEF Told
  <2> QED BY <2>1, <2>2, <1>k, <1>a, <1>g
\* A handler that owes nothing moves to a place where it owes nothing.
<1>m. ASSUME NEW h \in Handlers, UNCHANGED <<events, notices, lost>>,
             pc[h] # "committed", pc'[h] # "committed",
             \A g \in Handlers : g # h => pc'[g] = pc[g] /\ job'[g] = job[g]
      PROVE  NoticesAccounted'
  BY <1>m, <1>k DEF Owed, ReportOf
<1>1. ASSUME NEW p \in AllPayments, CreateStep(p) PROVE NoticesAccounted'
  <2>1. UNCHANGED <<events, notices, lost, pc, job>>
    BY <1>1 DEF CreateStep, InsertPayment, WriteCreatedEvent, BuildFails, Respond, processing
  <2> QED BY <2>1, <1>k DEF Owed, ReportOf
<1>2. ASSUME NEW h \in Handlers, NEW p \in AllPayments, Send(h, p) PROVE NoticesAccounted'
  BY <1>2, <1>m, <1>t DEF Send, TypeOK
<1>3. ASSUME NEW h \in Handlers, HandlerStep(h) PROVE NoticesAccounted'
  <2>1. CASE NotFound(h) \/ RollBack(h) \/ Answer(h)
    BY <2>1, <1>m, <1>t DEF NotFound, RollBack, Answer, Return, TypeOK
  <2>2. CASE LockRow(h) \/ UpdateStatus(h)
    <3>1. /\ UNCHANGED <<events, notices, lost>>
          /\ pc[h] # "committed" /\ pc'[h] # "committed"
          /\ \A g \in Handlers : g # h => pc'[g] = pc[g] /\ job'[g] = job[g]
      BY <2>2, <1>t DEF LockRow, UpdateStatus, TypeOK
    <3> QED BY <3>1, <1>m
  <2>3. CASE Commit(h)
    <3> DEFINE p == job[h].p
               b == Due(p, ReportOf(h)) # {}
               n == Len(events[p]) + 1
    <3>1. /\ p \in AllPayments /\ job[h].i \in Nat \ {0} /\ events[p] \in Seq(Nat \ {0})
          /\ Len(Reports[p]) \in Nat
      BY <2>3, <1>t, ReportsAssumption DEF Commit, WorkInv, TypeOK
    <3>2. /\ UNCHANGED <<notices, lost, job>>
          /\ pc[h] = "updated" /\ pc'[h] = "committed"
          /\ \A g \in Handlers : g # h => pc'[g] = pc[g]
          /\ \A q \in AllPayments : q # p => events'[q] = events[q]
          /\ events'[p] = Append(events[p], job[h].i)
      BY <2>3, <3>1, <1>t DEF Commit, TypeOK
    <3>3. /\ DOMAIN events[p] = 1 .. Len(events[p]) /\ Len(events[p]) \in Nat
          /\ DOMAIN events'[p] = (1 .. Len(events[p])) \cup {n}
          /\ events'[p][n] = job[h].i
          /\ \A m \in 1 .. Len(events[p]) : events'[p][m] = events[p][m]
      <4> DEFINE e == events[p]
                 f == events'[p]
                 i == job[h].i
      <4>1. e \in Seq(Nat \ {0}) /\ i \in Nat \ {0} /\ f = Append(e, i)
        BY <3>1, <3>2
      <4> HIDE DEF e, f, i
      <4>2. /\ f \in Seq(Nat \ {0}) /\ Len(f) = Len(e) + 1 /\ f[Len(e) + 1] = i
            /\ \A m \in 1 .. Len(e) : f[m] = e[m]
        BY <4>1, LogAppend
      <4>3. Len(e) \in Nat /\ DOMAIN e = 1 .. Len(e) /\ DOMAIN f = 1 .. Len(f)
        BY <4>1, <4>2
      <4>4. DOMAIN f = (1 .. Len(e)) \cup {Len(e) + 1}
        BY <4>2, <4>3
      <4> QED BY <4>2, <4>3, <4>4 DEF e, f, i
    <3>4. Told(p)' = (IF b THEN Told(p) \cup {n} ELSE Told(p)) /\ n \notin Told(p)
      <4>1. {m \in DOMAIN events'[p] : Due(p, Reports[p][events'[p][m]]) # {}}
              = IF b THEN Told(p) \cup {n} ELSE Told(p)
        BY <3>3 DEF Told, ReportOf
      <4>2. p' = p
        BY <3>2
      <4>3. Told(p)' = {m \in DOMAIN events'[p] : Due(p, Reports[p][events'[p][m]]) # {}}
        BY <4>2 DEF Told
      <4>4. n \notin DOMAIN events[p]
        BY <3>3
      <4>5. n \notin Told(p)
        BY <4>4 DEF Told
      <4> QED BY <4>1, <4>3, <4>5
    <3>5. Owing(p)' = (IF b THEN Owing(p) \cup {h} ELSE Owing(p)) /\ h \notin Owing(p)
      BY <3>2 DEF Owing, Owed, ReportOf
    <3>6. \A q \in AllPayments : q # p => Told(q)' = Told(q) /\ Owing(q)' = Owing(q)
      BY <3>2 DEF Told, Owing, Owed, ReportOf
    <3>7. b \in BOOLEAN
      OBVIOUS
    <3>8. Cardinality(Told(p)') = Cardinality(Told(p)) + (IF b THEN 1 ELSE 0)
      <4>1. IsFiniteSet(Told(p))
        BY <3>1, <1>t, FiniteAccounts
      <4> HIDE DEF b, n
      <4> QED BY <4>1, <3>4, <3>7, CardinalityOfSame
    <3>9. Cardinality(Owing(p)') = Cardinality(Owing(p)) + (IF b THEN 1 ELSE 0)
      <4>1. IsFiniteSet(Owing(p))
        BY <3>1, <1>t, FiniteAccounts
      <4> HIDE DEF b
      <4> QED BY <4>1, <3>5, <3>7, CardinalityOfSame
    <3>10. \A q \in AllPayments :
               Cardinality(Told(q)') = Len(notices'[q]) + lost'[q] + Cardinality(Owing(q)')
      <4> SUFFICES ASSUME NEW q \in AllPayments
                   PROVE  Cardinality(Told(q)') = Len(notices[q]) + lost[q] + Cardinality(Owing(q)')
        BY <3>2
      <4>1. CASE q # p
        BY <4>1, <3>6, <1>a
      <4>2. CASE q = p
        <5>1. Cardinality(Owing(p)) \in Nat
          BY <3>1, <1>t, FiniteAccounts
        <5> HIDE DEF b
        <5>2. Cardinality(Told(p)') = Len(notices[p]) + lost[p] + Cardinality(Owing(p)')
          <6> DEFINE u == IF b THEN 1 ELSE 0
                     x == Cardinality(Told(p))
                     y == Cardinality(Owing(p))
          <6>1. u \in Nat /\ y \in Nat /\ Len(notices[p]) \in Nat /\ lost[p] \in Nat
            BY <5>1, <3>1, <1>a
          <6>2. x = Len(notices[p]) + lost[p] + y
            BY <3>1, <1>a
          <6>3. Cardinality(Told(p)') = x + u /\ Cardinality(Owing(p)') = y + u
            BY <3>8, <3>9
          <6> HIDE DEF u, x, y
          <6> QED BY <6>1, <6>2, <6>3
        <5> QED BY <4>2, <5>2, <3>2
      <4> QED BY <4>1, <4>2
    <3> QED BY <3>10, <1>g
  <2>4. CASE Enqueue(h)
    <3> DEFINE p == job[h].p
               b == Due(p, ReportOf(h)) # {}
    <3>1. p \in AllPayments /\ ReportOf(h) \in Report
      BY <2>4, <1>t, ReportType DEF Enqueue, WorkInv
    <3>2. /\ UNCHANGED <<events, job>>
          /\ pc[h] = "committed" /\ pc'[h] = "answering"
          /\ \A g \in Handlers : g # h => pc'[g] = pc[g]
      BY <2>4, <1>t DEF Enqueue, TypeOK
    <3>3. \A q \in AllPayments : Told(q)' = Told(q)
      BY <3>2 DEF Told
    <3>4. \A q \in AllPayments : q # p => Owing(q)' = Owing(q)
      BY <3>2 DEF Owing, Owed, ReportOf
    <3>5. Owing(p)' = Owing(p) \ {h} /\ (h \in Owing(p) <=> b)
      BY <3>2 DEF Owing, Owed, ReportOf
    <3>6. /\ Cardinality(Owing(p)) \in Nat
          /\ Cardinality(Owing(p)') = IF b THEN Cardinality(Owing(p)) - 1
                                           ELSE Cardinality(Owing(p))
      <4>1. IsFiniteSet(Owing(p)) /\ Cardinality(Owing(p)) \in Nat
        BY <3>1, <1>t, FiniteAccounts
      <4> HIDE DEF b
      <4>2. Cardinality(Owing(p) \ {h}) = IF h \in Owing(p) THEN Cardinality(Owing(p)) - 1
                                                            ELSE Cardinality(Owing(p))
        BY <4>1, FS_RemoveElement
      <4> QED BY <4>1, <4>2, <3>5
    <3>7. /\ \A q \in AllPayments : q # p => notices'[q] = notices[q] /\ lost'[q] = lost[q]
          /\ Len(notices'[p]) + lost'[p] = IF b THEN Len(notices[p]) + lost[p] + 1
                                                ELSE Len(notices[p]) + lost[p]
      <4>1. CASE ~b /\ UNCHANGED <<notices, lost>>
        BY <4>1
      <4>2. CASE /\ \E t \in Due(p, ReportOf(h)) : notices' = [notices EXCEPT ![p] = Append(@, t)]
                 /\ UNCHANGED lost
        <5>1. PICK t \in Due(p, ReportOf(h)) : notices' = [notices EXCEPT ![p] = Append(@, t)]
          BY <4>2
        <5>2. t \in PaymentStatus /\ b
          BY <5>1 DEF Due, NoticeOf, PaymentStatus
        <5>3. notices[p] \in Seq(PaymentStatus) /\ notices'[p] = Append(notices[p], t)
          BY <3>1, <5>1, <1>t DEF TypeOK
        <5>4. Len(notices'[p]) = Len(notices[p]) + 1
          BY <5>2, <5>3
        <5>5. Len(notices'[p]) + lost'[p] = Len(notices[p]) + lost[p] + 1
          <6>1. lost'[p] = lost[p] /\ lost[p] \in Nat /\ Len(notices[p]) \in Nat
            BY <4>2, <3>1, <1>a
          <6> QED BY <6>1, <5>4
        <5>6. \A q \in AllPayments : q # p => notices'[q] = notices[q] /\ lost'[q] = lost[q]
          BY <4>2, <5>1, <1>t DEF TypeOK
        <5> QED BY <5>2, <5>5, <5>6
      <4>3. CASE b /\ lost' = [lost EXCEPT ![p] = @ + 1] /\ UNCHANGED notices
        BY <4>3, <3>1, <1>a, <1>t DEF TypeOK
      <4> QED BY <2>4, <4>1, <4>2, <4>3 DEF Enqueue
    <3>8. \A q \in AllPayments :
              Cardinality(Told(q)') = Len(notices'[q]) + lost'[q] + Cardinality(Owing(q)')
      <4> SUFFICES ASSUME NEW q \in AllPayments
                   PROVE  Cardinality(Told(q)') = Len(notices'[q]) + lost'[q] + Cardinality(Owing(q)')
        OBVIOUS
      <4>1. CASE q # p
        BY <4>1, <3>3, <3>4, <3>7, <1>a
      <4>2. CASE q = p
        <5> HIDE DEF b
        <5>1. Len(notices'[p]) \in Nat /\ lost'[p] \in Nat
          BY <3>1, <1>t DEF TypeOK
        <5>2. Cardinality(Told(p)) = Len(notices'[p]) + lost'[p] + Cardinality(Owing(p)')
          <6> DEFINE x == Cardinality(Told(p))
                     y == Cardinality(Owing(p))
                     z == Cardinality(Owing(p)')
          <6>1. y \in Nat /\ Len(notices[p]) \in Nat /\ lost[p] \in Nat
            BY <3>1, <3>6, <1>a
          <6>2. x = Len(notices[p]) + lost[p] + y
            BY <3>1, <1>a
          <6>3. z = IF b THEN y - 1 ELSE y
            BY <3>6
          <6> DEFINE u == Len(notices[p]) + lost[p]
                     v == Len(notices'[p]) + lost'[p]
          <6>4. v = IF b THEN u + 1 ELSE u
            BY <3>7
          <6>5. u \in Nat /\ v \in Nat
            <7>1. \A k, l \in Nat : k + l \in Nat
              OBVIOUS
            <7> QED BY <5>1, <6>1, <7>1, Zenon
          <6>6. x = u + y
            BY <6>2
          <6> HIDE DEF x, y, z, u, v
          <6>7. x = v + z
            BY <6>1, <6>3, <6>4, <6>5, <6>6
          <6> QED BY <6>7 DEF x, z, v
        <5> QED BY <4>2, <5>2, <3>1, <3>2, <3>3
      <4> QED BY <4>1, <4>2
    <3> QED BY <3>8, <1>g
  <2> QED BY <1>3, <2>1, <2>2, <2>3, <2>4 DEF HandlerStep
<1>4. CASE Crash
  <2>1. /\ UNCHANGED <<events, notices>> /\ \A h \in Handlers : pc'[h] = "idle"
        /\ \A p \in AllPayments : lost'[p] = lost[p] + Cardinality(Owing(p))
    BY <1>4 DEF Crash, Owing
  <2>2. \A p \in AllPayments : Told(p)' = Told(p) /\ Owing(p)' = {}
    BY <2>1 DEF Told, Owing, Owed
  <2>3. \A p \in AllPayments :
            Cardinality(Told(p)') = Len(notices'[p]) + lost'[p] + Cardinality(Owing(p)')
    <3> SUFFICES ASSUME NEW p \in AllPayments
                 PROVE  Cardinality(Told(p)') = Len(notices'[p]) + lost'[p] + Cardinality(Owing(p)')
      OBVIOUS
    <3>1. Cardinality(Owing(p)) \in Nat
      BY <1>t, FiniteAccounts
    <3>2. Cardinality(Owing(p)') = 0
      BY <2>2, FS_EmptySet
    <3> QED BY <2>1, <2>2, <3>1, <3>2, <1>a
  <2> QED BY <2>3, <1>g
<1>5. CASE UNCHANGED vars
  BY <1>5, <1>k DEF vars, Owed, ReportOf
<1> QED BY <1>1, <1>2, <1>3, <1>4, <1>5 DEF Next

\* Retries, overlapping requests and crashes neither drop a merchant's notice
\* without counting it as lost nor enqueue one twice for one applied report.
THEOREM NoticesCorrect == Spec => []NoticesAccounted
<1>1. Init => NoticesAccounted
  <2> SUFFICES ASSUME Init, NEW p \in AllPayments
               PROVE  Cardinality(Told(p)) = Len(notices[p]) + lost[p] + Cardinality(Owing(p))
    BY DEF NoticesAccounted, Told, Owing
  <2>1. Told(p) = {} /\ Owing(p) = {}
    BY DEF Init, Told, Owing, Owed
  <2> QED BY <2>1, FS_EmptySet DEF Init
<1> QED BY <1>1, NoticesStep, LedgerInvariance, PTL DEF Spec

-----------------------------------------------------------------------------
(* Going back *)

\* What is in the log was sent before the indexer moved on past the next report.
LogReached ==
    \A p \in AllPayments : \A n \in 1 .. Len(events[p]) : events[p][n] <= acked[p] + 1

LEMMA RankType == ASSUME NEW s PROVE Rank(s) \in 0 .. 4
  BY DEF Rank

\* mapStatus keeps the stages of the indexer's reports in their order.
LEMMA RankOfReport == ASSUME NEW rep PROVE Rank(NewStatus(rep)) = Stage(rep)
  BY DEF Rank, NewStatus, MapStatus, Stage, IsFailure

LEMMA ReachedStep == IInv /\ IInv' /\ LogReached /\ [Next]_vars => LogReached'
<1> SUFFICES ASSUME IInv, IInv', LogReached, [Next]_vars PROVE LogReached'
  OBVIOUS
<1>t. TypeOK /\ TypeOK' /\ WorkInv
  BY DEF IInv
<1>1. ASSUME NEW h \in Handlers, Commit(h) PROVE LogReached'
  <2> DEFINE p == job[h].p
  <2>1. /\ p \in AllPayments /\ job[h].i \in Nat \ {0} /\ events[p] \in Seq(Nat \ {0})
        /\ job[h].i <= acked[p] + 1
    <3>1. Len(Reports[p]) \in Nat /\ p \in AllPayments
      BY <1>1, <1>t, ReportsAssumption DEF Commit, WorkInv
    <3>2. job[h].i \in 1 .. Len(Reports[p]) /\ job[h].i <= acked[p] + 1
      BY <1>1, <1>t DEF Commit, WorkInv
    <3>3. job[h].i \in Nat \ {0}
      BY <3>1, <3>2
    <3>4. events[p] \in Seq(Nat \ {0})
      BY <3>1, <1>t DEF TypeOK
    <3> QED BY <3>1, <3>2, <3>3, <3>4
  <2>2. /\ UNCHANGED acked
        /\ \A q \in AllPayments : q # p => events'[q] = events[q]
        /\ events'[p] = Append(events[p], job[h].i)
    BY <1>1, <2>1, <1>t DEF Commit, TypeOK, indexer
  <2>3. /\ Len(events[p]) \in Nat /\ Len(events'[p]) = Len(events[p]) + 1
        /\ events'[p][Len(events[p]) + 1] = job[h].i
        /\ \A m \in 1 .. Len(events[p]) : events'[p][m] = events[p][m]
    BY <2>1, <2>2, LogAppend
  <2>4. \A n \in 1 .. Len(events'[p]) : events'[p][n] <= acked[p] + 1
    <3> SUFFICES ASSUME NEW n \in 1 .. Len(events'[p]) PROVE events'[p][n] <= acked[p] + 1
      OBVIOUS
    <3>1. CASE n \in 1 .. Len(events[p])
      BY <3>1, <2>1, <2>3 DEF LogReached
    <3>2. CASE n = Len(events[p]) + 1
      BY <3>2, <2>1, <2>3
    <3>3. n \in 1 .. Len(events[p]) \/ n = Len(events[p]) + 1
      BY <2>3
    <3> QED BY <3>1, <3>2, <3>3
  <2> QED BY <2>2, <2>4 DEF LogReached
<1>2. ASSUME UNCHANGED events, \A p \in AllPayments : acked'[p] >= acked[p] PROVE LogReached'
  <2> SUFFICES ASSUME NEW p \in AllPayments, NEW n \in 1 .. Len(events[p])
               PROVE  events[p][n] <= acked'[p] + 1
    BY <1>2 DEF LogReached
  <2>1. acked[p] \in Nat /\ acked'[p] \in Nat /\ events[p][n] \in Nat
    BY <1>t DEF TypeOK
  <2> QED BY <2>1, <1>2 DEF LogReached
<1>3. ASSUME NEW h \in Handlers, Answer(h) PROVE LogReached'
  <2>1. job[h].p \in AllPayments
    BY <1>3, <1>t DEF Answer, WorkInv
  <2>2. UNCHANGED events
    BY <1>3 DEF Answer
  <2>3. acked' = acked \/ acked' = [acked EXCEPT ![job[h].p] = @ + 1]
    BY <1>3 DEF Answer
  <2>4. \A p \in AllPayments : acked'[p] >= acked[p]
    <3> SUFFICES ASSUME NEW p \in AllPayments PROVE acked'[p] >= acked[p]
      OBVIOUS
    <3>1. acked[p] \in Nat /\ acked \in [AllPayments -> Nat]
      BY <1>t DEF TypeOK
    <3>2. CASE acked' = acked
      BY <3>1, <3>2
    <3>3. CASE acked' = [acked EXCEPT ![job[h].p] = @ + 1]
      BY <3>1, <3>3
    <3> QED BY <2>3, <3>2, <3>3
  <2> QED BY <2>2, <2>4, <1>2
<1>4. ASSUME UNCHANGED <<events, acked>> PROVE LogReached'
  BY <1>4 DEF LogReached
<1>5. ASSUME NEW h \in Handlers, HandlerStep(h) PROVE LogReached'
  BY <1>1, <1>3, <1>4, <1>5
  DEF HandlerStep, NotFound, LockRow, UpdateStatus, RollBack, Enqueue, indexer
<1>6. ASSUME NEW p \in AllPayments, CreateStep(p) PROVE LogReached'
  BY <1>4, <1>6 DEF CreateStep, InsertPayment, WriteCreatedEvent, BuildFails, Respond,
                    processing, indexer
<1> QED BY <1>4, <1>5, <1>6 DEF Next, Send, Crash, indexer, vars

\* Only a commit changes the status of a payment that exists.
LEMMA StatusWriters ==
    ASSUME IInv, [Next]_vars, NEW p \in AllPayments, payment'[p] # payment[p]
    PROVE  \/ payment[p].status = "none"
           \/ \E h \in Handlers : Commit(h) /\ job[h].p = p
<1>1. ASSUME NEW q \in AllPayments, InsertPayment(q) PROVE payment[p].status = "none"
  BY <1>1 DEF InsertPayment, IInv, TypeOK, StartInv, NoPayment, RowWith
<1>2. ASSUME NEW h \in Handlers, Commit(h) PROVE job[h].p = p
  BY <1>2 DEF Commit, IInv, TypeOK
<1>3. ASSUME NEW h \in Handlers, HandlerStep(h) PROVE Commit(h) /\ job[h].p = p
  BY <1>2, <1>3 DEF HandlerStep, NotFound, LockRow, UpdateStatus, RollBack, Enqueue, Answer
<1>4. ASSUME NEW q \in AllPayments, CreateStep(q) PROVE InsertPayment(q)
  BY <1>4 DEF CreateStep, WriteCreatedEvent, BuildFails, Respond
<1> QED BY <1>1, <1>3, <1>4 DEF Next, Send, Crash, vars

LEMMA BackStep == ASSUME ChainMovesForward
                  PROVE  IInv /\ LogReached /\ [Next]_vars =>
                             \A p \in AllPayments :
                                 Rank(payment'[p].status) < Rank(payment[p].status) =>
                                     \E n \in 1 .. Len(events[p]) :
                                         events[p][n] = events'[p][Len(events'[p])]
<1> SUFFICES ASSUME IInv, LogReached, [Next]_vars, NEW p \in AllPayments,
                    Rank(payment'[p].status) < Rank(payment[p].status)
             PROVE  \E n \in 1 .. Len(events[p]) : events[p][n] = events'[p][Len(events'[p])]
  OBVIOUS
<1>1. payment'[p] # payment[p] /\ payment[p].status # "none"
  <2>1. Rank("none") = 0
    BY DEF Rank
  <2> QED BY <2>1, RankType
<1>2. PICK h \in Handlers : Commit(h) /\ job[h].p = p
  BY <1>1, StatusWriters
<1> DEFINE i == job[h].i
<1>3. /\ i \in Nat \ {0} /\ i \in 1 .. Len(Reports[p]) /\ events[p] \in Seq(Nat \ {0})
      /\ payment'[p].status = NewStatus(Reports[p][i])
      /\ events'[p] = Append(events[p], i)
      /\ acked[p] \in Nat /\ Len(Reports[p]) \in Nat
  <2>1. Len(Reports[p]) \in Nat
    BY ReportsAssumption
  <2> QED BY <2>1, <1>2 DEF Commit, IInv, TypeOK, WorkInv, UpdatedInv, ReportOf
<1>4. events'[p][Len(events'[p])] = i
  BY <1>3, LogAppend
<1>5. events[p] # <<>>
  <2> SUFFICES ASSUME events[p] = <<>> PROVE FALSE
    OBVIOUS
  <2>1. payment[p].status = "PENDING"
    BY <1>1 DEF IInv, StatusFromLastEvent
  <2>2. Reports[p][i] \in Report
    BY <1>3, ReportsAssumption
  <2>3. NewStatus(Reports[p][i]) # "none"
    BY <2>2, NewStatusType
  <2>4. Rank(payment'[p].status) >= 1
    BY <1>3, <2>3 DEF Rank
  <2> QED BY <2>1, <2>4, RankType DEF Rank
<1> DEFINE j == events[p][Len(events[p])]
<1>6. Len(events[p]) \in 1 .. Len(events[p])
  BY <1>3, <1>5
<1>7. /\ j \in 1 .. Len(Reports[p]) /\ j <= acked[p] + 1
      /\ payment[p].status = NewStatus(Reports[p][j])
  BY <1>5, <1>6 DEF IInv, RangeInv, LogReached, StatusFromLastEvent
<1>8. ~(j <= i)
  <2> SUFFICES ASSUME j <= i PROVE FALSE
    OBVIOUS
  <2>1. Rank(NewStatus(Reports[p][j])) <= Rank(NewStatus(Reports[p][i]))
    BY <1>3, <1>7, RankOfReport DEF ChainMovesForward
  <2> QED BY <2>1, <1>3, <1>7, RankType
<1>9. i \in 1 .. acked[p]
  BY <1>3, <1>7, <1>8
<1> QED BY <1>4, <1>9 DEF IInv, AckedIsRecorded

\* When the chain itself moves a payment forward only, every step back of the
\* payments table repeats a report that was already applied.
THEOREM BackCorrect == ASSUME ChainMovesForward PROVE Spec => BackOnlyToRecorded
<1>1. Init => LogReached
  BY DEF Init, LogReached
<1>2. Spec => []LogReached
  BY <1>1, ReachedStep, LedgerInvariance, PTL DEF Spec
<1> QED BY <1>2, LedgerInvariance, BackStep, PTL DEF Spec, BackOnlyToRecorded

=============================================================================
