------------------------ MODULE WebhookDeliveryProofs ------------------------
(***************************************************************************)
(* Safety of the notification engine for any number of deliveries and of   *)
(* overlapping manual retries, any batch size and any retry limit.         *)
(***************************************************************************)
EXTENDS WebhookDelivery, FiniteSetTheorems, TLAPS

\* The facts that the three worker-side copies of a row (the fetched batch,
\* the dispatcher's copy, the outcome it will write) must satisfy for every
\* later write of them to be harmless.
CopiesCounted ==
    /\ \A d \in Deliveries : snap[d].retry <= attempts[d]
    /\ \A w \in Workers : copy[w].retry <= attempts[cur[w]]
    /\ \A w \in Workers :
           pc[w] = "answered" => copy[w].retry + 1 <= attempts[cur[w]]

\* What the status of a row says of its retry counter.
StatusCounted ==
    \A d \in Deliveries :
        /\ row[d].status \in {"pending", "retrying"} => row[d].retry < MaxRetries
        /\ row[d].status = "failed" => row[d].retry >= MaxRetries

\* A request is sent only after its row has left pending.
SentAfterPending ==
    \A d \in Deliveries :
        row[d].status \in {"pending", "absent"} /\ lost[d] = 0 =>
            /\ attempts[d] = 0
            /\ \A w \in Workers : cur[w] = d => pc[w] \notin {"marked", "answered"}

IInv ==
    /\ TypeOK
    /\ RetryNeverOvercounts
    /\ CopiesCounted
    /\ StatusCounted
    /\ SentAfterPending
    /\ DeliveringHasWorkerUnlessInterrupted

-----------------------------------------------------------------------------
LEMMA RowUpdates ==
    ASSUME NEW c \in Row, NEW a
    PROVE  /\ NoRow \in Row
           /\ NoRow.retry = 0
           /\ Marked(c) \in Row
           /\ Marked(c).status = "delivering"
           /\ Marked(c).retry = c.retry
           /\ Outcome(c, a) \in Row
           /\ Outcome(c, a).status \in {"delivered", "retrying", "failed"}
           /\ Outcome(c, a).retry \in {c.retry, c.retry + 1}
           /\ Outcome(c, a).status = "retrying" => Outcome(c, a).retry < MaxRetries
           /\ Outcome(c, a).status = "failed" => Outcome(c, a).retry >= MaxRetries
  BY MaxRetriesAssumption
  DEF Row, NoRow, RowWith, Marked, Outcome, SetNextRetryAt, WebhookDeliveryStatus

LEMMA TypeInit == Init => TypeOK
  BY NDeliveriesAssumption
  DEF Init, TypeOK, Row, NoRow, RowWith, Deliveries, WebhookDeliveryStatus


LEMMA TypeStep == TypeOK /\ [Next]_vars => TypeOK'
<1> SUFFICES ASSUME TypeOK, [Next]_vars PROVE TypeOK'
  OBVIOUS
<1> USE NDeliveriesAssumption, MaxRetriesAssumption DEF TypeOK
<1>a. NoRow \in Row /\ 1 \in Deliveries /\ "job" \in Workers /\ Admins \subseteq Workers
  BY DEF NoRow, RowWith, Row, WebhookDeliveryStatus, Deliveries, Workers
<1>1. ASSUME NEW d \in Deliveries, Enqueue(d) PROVE TypeOK'
  BY <1>1 DEF Enqueue, RowWith, Row, WebhookDeliveryStatus, history
<1>2. ASSUME NEW d \in Deliveries, RetryTimePasses(d) PROVE TypeOK'
  <2>1. RowWith(row[d].status, row[d].retry, "passed") \in Row
    BY DEF RowWith, Row
  <2> QED BY <1>2, <2>1 DEF RetryTimePasses, history
<1>3. CASE SetWebhookConfig
  BY <1>3 DEF SetWebhookConfig, history
<1>4. CASE FetchBatch
  BY <1>4, <1>a DEF FetchBatch, PendingAttempts, history
<1>5. ASSUME NEW d \in Deliveries, TakeNext(d) PROVE TypeOK'
  <2>1. RowWith("failed", snap[d].retry, "unset") \in Row
    BY DEF RowWith, Row, WebhookDeliveryStatus
  <2> QED BY <1>5, <1>a, <2>1 DEF TakeNext, Pop, Update
<1>6. ASSUME NEW a \in Admins, NEW d \in Deliveries, ManualRetry(a, d) PROVE TypeOK'
  BY <1>6, <1>a DEF ManualRetry
<1>7. ASSUME NEW w \in Workers, DispatchStep(w) PROVE TypeOK'
  <2>1. CASE MerchantLookupFails(w)
    BY <2>1, <1>a DEF MerchantLookupFails, Return
  <2>2. CASE Drop(w)
    <3>1. RowWith("dropped", copy[w].retry, copy[w].next) \in Row
      BY DEF RowWith, Row, WebhookDeliveryStatus
    <3> QED BY <2>2, <3>1, <1>a DEF Drop, Update, Return
  <2>3. CASE NewRequestFails(w)
    BY <2>3, <1>a DEF NewRequestFails, Return, history
  <2>4. CASE MarkDelivering(w)
    <3>1. Marked(copy[w]) \in Row
      BY RowUpdates
    <3> QED BY <2>4, <3>1 DEF MarkDelivering, Update
  <2>5. ASSUME NEW a \in {"2xx", "unheard", "refused"}, Send(w, a) PROVE TypeOK'
    BY <2>5 DEF Send
  <2>6. CASE Record(w)
    <3>1. Outcome(copy[w], answer[w]) \in Row
      BY RowUpdates
    <3> QED BY <2>6, <3>1, <1>a DEF Record, Update, Return
  <2> QED BY <1>7, <2>1, <2>2, <2>3, <2>4, <2>5, <2>6 DEF DispatchStep
<1>8. CASE Shutdown
  <2>1. jobUp' \in BOOLEAN
    BY <1>8, Zenon DEF Shutdown
  <2>2. stops' \in Nat
    BY <1>8 DEF Shutdown
  <2> QED BY <1>8, <1>a, <2>1, <2>2 DEF Shutdown, Return
<1>9. CASE CrashRestart
  BY <1>9, <1>a DEF CrashRestart
<1>10. CASE UNCHANGED vars
  BY <1>10 DEF vars
<1> QED BY <1>1, <1>2, <1>3, <1>4, <1>5, <1>6, <1>7, <1>8, <1>9, <1>10 DEF Next

-----------------------------------------------------------------------------
LEMMA InitEstablishes == Init => IInv
<1> SUFFICES ASSUME Init PROVE IInv
  OBVIOUS
<1>1. TypeOK
  BY TypeInit
<1>2. RetryNeverOvercounts /\ CopiesCounted
  BY <1>1 DEF Init, TypeOK, RetryNeverOvercounts, CopiesCounted, NoRow, RowWith
<1>3. StatusCounted /\ DeliveringHasWorkerUnlessInterrupted
  BY DEF Init, StatusCounted, DeliveringHasWorkerUnlessInterrupted, NoRow, RowWith
<1>4. SentAfterPending
  BY DEF Init, SentAfterPending
<1> QED
  BY <1>1, <1>2, <1>3, <1>4 DEF IInv

LEMMA StepPreserves == IInv /\ [Next]_vars => IInv'
<1> SUFFICES ASSUME IInv, [Next]_vars PROVE IInv'
  OBVIOUS
<1> USE MaxRetriesAssumption DEF TypeOK
<1>t. TypeOK /\ TypeOK'
  BY TypeStep DEF IInv
<1>a. /\ 1 \in Deliveries /\ "job" \in Workers /\ Admins \subseteq Workers
      /\ NoRow.retry = 0 /\ NoRow.status = "absent"
  BY NDeliveriesAssumption DEF NoRow, RowWith, Deliveries, Workers
<1>b. \A c \in Row : c.retry \in Nat
  BY DEF Row
<1> DEFINE Goal == /\ RetryNeverOvercounts' /\ CopiesCounted' /\ StatusCounted'
                   /\ SentAfterPending' /\ DeliveringHasWorkerUnlessInterrupted'
<1> SUFFICES Goal
  BY <1>t DEF IInv
<1> USE DEF IInv, RetryNeverOvercounts, CopiesCounted, StatusCounted,
            SentAfterPending, DeliveringHasWorkerUnlessInterrupted
<1>1. ASSUME NEW d \in Deliveries, Enqueue(d) PROVE Goal
  BY <1>1, <1>t, <1>b DEF Enqueue, RowWith, history
<1>2. ASSUME NEW d \in Deliveries, RetryTimePasses(d) PROVE Goal
  BY <1>2, <1>t, <1>b DEF RetryTimePasses, RowWith, history
<1>3. CASE SetWebhookConfig
  BY <1>3, <1>t DEF SetWebhookConfig, history
<1>4. CASE FetchBatch
  BY <1>4, <1>a, <1>b, <1>t DEF FetchBatch, history
<1>5. ASSUME NEW d \in Deliveries, TakeNext(d) PROVE Goal
  <2>1. CASE snap[d].retry >= MaxRetries
    <3>1. CASE row' = [row EXCEPT ![d] = RowWith("failed", snap[d].retry, "unset")]
               /\ UNCHANGED lost
      BY <1>5, <2>1, <3>1, <1>a, <1>b, <1>t DEF TakeNext, Pop, RowWith
    <3>2. CASE lost' = [lost EXCEPT ![d] = @ + 1] /\ UNCHANGED row
      BY <1>5, <2>1, <3>2, <1>a, <1>b, <1>t DEF TakeNext, Pop
    <3> QED BY <1>5, <2>1, <3>1, <3>2 DEF TakeNext, Update
  <2>2. CASE ~(snap[d].retry >= MaxRetries)
    <3>1. /\ UNCHANGED <<row, lost, attempts, stops>>
          /\ pc["job"] = "idle" /\ pc' = [pc EXCEPT !["job"] = "loaded"]
          /\ cur' = [cur EXCEPT !["job"] = d]
          /\ copy' = [copy EXCEPT !["job"] = snap[d]]
          /\ snap' = [snap EXCEPT ![d] = NoRow]
      BY <1>5, <2>2 DEF TakeNext, Pop
    <3>2. RetryNeverOvercounts' /\ StatusCounted' /\ CopiesCounted'
      BY <3>1, <1>a, <1>t
    <3>3. SentAfterPending' /\ DeliveringHasWorkerUnlessInterrupted'
      BY <3>1, <1>a, <1>t
    <3> QED BY <3>2, <3>3
  <2> QED BY <2>1, <2>2
<1>6. ASSUME NEW a \in Admins, NEW d \in Deliveries, ManualRetry(a, d) PROVE Goal
  BY <1>6, <1>a, <1>b, <1>t DEF ManualRetry
<1>7. ASSUME NEW w \in Workers, DispatchStep(w) PROVE Goal
  <2>1. CASE MerchantLookupFails(w)
    BY <2>1, <1>a, <1>b, <1>t DEF MerchantLookupFails, Return
  <2>2. CASE Drop(w)
    <3>1. CASE row' = [row EXCEPT ![cur[w]] =
                           RowWith("dropped", copy[w].retry, copy[w].next)]
               /\ UNCHANGED lost
      BY <2>2, <3>1, <1>a, <1>b, <1>t DEF Drop, Return, RowWith
    <3>2. CASE lost' = [lost EXCEPT ![cur[w]] = @ + 1] /\ UNCHANGED row
      BY <2>2, <3>2, <1>a, <1>b, <1>t DEF Drop, Return
    <3> QED BY <2>2, <3>1, <3>2 DEF Drop, Update
  <2>3. CASE NewRequestFails(w)
    BY <2>3, <1>a, <1>b, <1>t DEF NewRequestFails, Return, history
  <2>4. CASE MarkDelivering(w)
    <3>1. CASE row' = [row EXCEPT ![cur[w]] = Marked(copy[w])] /\ UNCHANGED lost
      BY <2>4, <3>1, <1>a, <1>b, <1>t DEF MarkDelivering, Marked, RowWith
    <3>2. CASE lost' = [lost EXCEPT ![cur[w]] = @ + 1] /\ UNCHANGED row
      BY <2>4, <3>2, <1>a, <1>b, <1>t DEF MarkDelivering, Marked, RowWith
    <3> QED BY <2>4, <3>1, <3>2 DEF MarkDelivering, Update
  <2>5. ASSUME NEW a \in {"2xx", "unheard", "refused"}, Send(w, a) PROVE Goal
    BY <2>5, <1>a, <1>b, <1>t DEF Send
  <2>6. CASE Record(w)
    <3>1. /\ Outcome(copy[w], answer[w]).status \in {"delivered", "retrying", "failed"}
          /\ Outcome(copy[w], answer[w]).retry \in {copy[w].retry, copy[w].retry + 1}
          /\ Outcome(copy[w], answer[w]).status = "retrying" =>
                 Outcome(copy[w], answer[w]).retry < MaxRetries
          /\ Outcome(copy[w], answer[w]).status = "failed" =>
                 Outcome(copy[w], answer[w]).retry >= MaxRetries
      BY RowUpdates, <1>t
    <3>2. CASE row' = [row EXCEPT ![cur[w]] = Outcome(copy[w], answer[w])]
               /\ UNCHANGED lost
      BY <2>6, <3>1, <3>2, <1>a, <1>b, <1>t DEF Record, Return
    <3>3. CASE lost' = [lost EXCEPT ![cur[w]] = @ + 1] /\ UNCHANGED row
      BY <2>6, <3>3, <1>a, <1>b, <1>t DEF Record, Return
    <3> QED BY <2>6, <3>2, <3>3 DEF Record, Update
  <2> QED BY <1>7, <2>1, <2>2, <2>3, <2>4, <2>5, <2>6 DEF DispatchStep
<1>8. CASE Shutdown
  BY <1>8, <1>a, <1>b, <1>t DEF Shutdown, Return
<1>9. CASE CrashRestart
  BY <1>9, <1>a, <1>b, <1>t DEF CrashRestart
<1>10. CASE UNCHANGED vars
  BY <1>10, <1>t DEF vars
<1> QED BY <1>1, <1>2, <1>3, <1>4, <1>5, <1>6, <1>7, <1>8, <1>9, <1>10 DEF Next

-----------------------------------------------------------------------------
\* The inductive invariant holds in every reachable state.
THEOREM Invariance == Spec => []IInv
  BY InitEstablishes, StepPreserves, PTL DEF Spec

\* Every variable of the engine keeps its type, whatever the bounds.
THEOREM TypeCorrect == Spec => []TypeOK
<1>1. IInv => TypeOK
  BY DEF IInv
<1> QED BY <1>1, Invariance, PTL

\* RetryCount of a webhook_logs row never exceeds the requests sent for it.
THEOREM RetryCorrect == Spec => []RetryNeverOvercounts
<1>1. IInv => RetryNeverOvercounts
  BY DEF IInv
<1> QED BY <1>1, Invariance, PTL

\* The job's test of WebhookMaxRetries before Dispatch is redundant: every row
\* it can fetch has retries left.
THEOREM PickableCorrect == Spec => []PickableHasRetries
<1>1. IInv => PickableHasRetries
  BY DEF IInv, StatusCounted, PickableHasRetries, Pickable
<1> QED BY <1>1, Invariance, PTL

\* The dispatcher and the job never give up before webhookMaxRetries requests.
THEOREM FailedCorrect == Spec => []FailedAfterMaxRetries
<1>1. IInv => FailedAfterMaxRetries
  <2> SUFFICES ASSUME IInv, NEW d \in Deliveries, row[d].status = "failed"
               PROVE  attempts[d] >= MaxRetries
    BY DEF FailedAfterMaxRetries
  <2>1. row[d].retry \in Nat /\ attempts[d] \in Nat
    BY DEF IInv, TypeOK, Row
  <2>2. row[d].retry >= MaxRetries /\ row[d].retry <= attempts[d]
    BY DEF IInv, StatusCounted, RetryNeverOvercounts
  <2> QED BY <2>1, <2>2, MaxRetriesAssumption
<1> QED BY <1>1, Invariance, PTL

\* A pending row of which no write was lost has never been sent.
THEOREM PendingCorrect == Spec => []PendingNotAttempted
<1>1. IInv => PendingNotAttempted
  BY DEF IInv, SentAfterPending, PendingNotAttempted
<1> QED BY <1>1, Invariance, PTL

\* A row is left in "delivering" without a worker only by a stop of the
\* process or by a lost write.
THEOREM DeliveringCorrect == Spec => []DeliveringHasWorkerUnlessInterrupted
<1>1. IInv => DeliveringHasWorkerUnlessInterrupted
  BY DEF IInv
<1> QED BY <1>1, Invariance, PTL

-----------------------------------------------------------------------------
(* Deliveries nobody retried by hand, and the refinement of Notification *)

JobOn(d) == pc["job"] # "idle" /\ cur["job"] = d

\* Without a manual retry only the job works on a delivery, on a copy that is
\* not stale, one attempt at a time.
OnlyJob ==
    \A d \in Deliveries : manual[d] = 0 =>
        /\ \A a \in Admins : pc[a] # "idle" => cur[a] # d
        /\ d \in batch => Pickable(row[d]) /\ snap[d] = row[d] /\ ~JobOn(d)
        /\ JobOn(d) =>
              /\ copy["job"].retry = row[d].retry
              /\ row[d].status = "delivering" \/ Pickable(row[d])
              /\ pc["job"] = "loaded" => Pickable(row[d])
              /\ pc["job"] # "loaded" /\ lost[d] = 0 => row[d].status = "delivering"

\* Every request but the last is in the retry counter, or a write was lost.
Bounded ==
    \A d \in Deliveries : manual[d] = 0 =>
        /\ row[d].status \in {"absent", "pending", "retrying", "failed"} =>
              attempts[d] <= row[d].retry + lost[d]
        /\ JobOn(d) /\ pc["job"] = "marked" =>
              /\ attempts[d] <= row[d].retry + lost[d]
              /\ row[d].status # "delivering" => attempts[d] + 1 <= row[d].retry + lost[d]
        /\ attempts[d] <= row[d].retry + lost[d] + 1
        /\ row[d].retry <= MaxRetries
        /\ row[d].status # "failed" => row[d].retry < MaxRetries
        /\ row[d].status = "absent" => row[d].retry = 0

AnswerCounted ==
    \A w \in Workers : pc[w] = "answered" /\ answer[w] = "2xx" => accepted[cur[w]] > 0

JInv == OnlyJob /\ Bounded /\ AnswerCounted

LEMMA JobInit == Init => JInv
<1> SUFFICES ASSUME Init PROVE JInv
  OBVIOUS
<1>1. "job" \in Workers /\ Admins \subseteq Workers
  BY DEF Workers
<1> QED
  BY <1>1, MaxRetriesAssumption
  DEF Init, JInv, OnlyJob, Bounded, AnswerCounted, JobOn, NoRow, RowWith

LEMMA JobStep == IInv /\ IInv' /\ JInv /\ [Next]_vars => JInv'
<1> SUFFICES ASSUME IInv, IInv', JInv, [Next]_vars PROVE JInv'
  OBVIOUS
<1>t. TypeOK /\ TypeOK' /\ StatusCounted
  BY DEF IInv
<1>a. /\ 1 \in Deliveries /\ "job" \in Workers /\ Admins \subseteq Workers /\ "job" \notin Admins
      /\ NoRow.retry = 0 /\ NoRow.status = "absent"
  BY NDeliveriesAssumption, JobAssumption DEF NoRow, RowWith, Deliveries, Workers
<1>b. \A c \in Row : c.retry \in Nat
  BY DEF Row
<1> USE MaxRetriesAssumption DEF TypeOK, JInv, OnlyJob, Bounded, AnswerCounted, JobOn
<1>1. ASSUME NEW d \in Deliveries, Enqueue(d) PROVE JInv'
  BY <1>1, <1>t, <1>a, <1>b DEF Enqueue, RowWith, history, Pickable
<1>2. ASSUME NEW d \in Deliveries, RetryTimePasses(d) PROVE JInv'
  BY <1>2, <1>t, <1>a, <1>b DEF RetryTimePasses, RowWith, history, Pickable
<1>3. CASE SetWebhookConfig
  BY <1>3, <1>t DEF SetWebhookConfig, history
<1>4. CASE FetchBatch
  BY <1>4, <1>a, <1>t DEF FetchBatch, PendingAttempts, history
<1>5. ASSUME NEW d \in Deliveries, TakeNext(d) PROVE JInv'
  <2>1. CASE snap[d].retry >= MaxRetries
    <3>1. manual[d] # 0
      BY <1>5, <2>1, <1>t, <1>b DEF TakeNext, First, StatusCounted, Pickable
    <3>2. /\ \A e \in Deliveries : e # d => row'[e] = row[e] /\ lost'[e] = lost[e]
          /\ UNCHANGED <<pc, cur, copy, answer, attempts, accepted, manual>>
          /\ batch' = batch \ {d} /\ snap' = [snap EXCEPT ![d] = NoRow]
      BY <1>5, <2>1, <1>t DEF TakeNext, Pop, Update
    <3> QED BY <3>1, <3>2, <1>t, <1>a
  <2>2. CASE ~(snap[d].retry >= MaxRetries)
    <3>1. /\ UNCHANGED <<row, lost, attempts, accepted, manual, answer>>
          /\ pc["job"] = "idle" /\ pc' = [pc EXCEPT !["job"] = "loaded"]
          /\ cur' = [cur EXCEPT !["job"] = d] /\ d \in batch
          /\ copy' = [copy EXCEPT !["job"] = snap[d]]
          /\ snap' = [snap EXCEPT ![d] = NoRow] /\ batch' = batch \ {d}
      BY <1>5, <2>2 DEF TakeNext, Pop, First
    <3>2. OnlyJob'
      BY <3>1, <1>a, <1>t DEF Pickable
    <3>3. Bounded' /\ AnswerCounted'
      BY <3>1, <1>a, <1>t
    <3> QED BY <3>2, <3>3
  <2> QED BY <2>1, <2>2
<1>6. ASSUME NEW a \in Admins, NEW d \in Deliveries, ManualRetry(a, d) PROVE JInv'
  <2>1. manual'[d] # 0 /\ \A e \in Deliveries : e # d => manual'[e] = manual[e]
    BY <1>6, <1>t DEF ManualRetry
  <2> QED BY <1>6, <2>1, <1>a, <1>t DEF ManualRetry
<1>7. ASSUME NEW w \in Workers, DispatchStep(w) PROVE JInv'
  <2>0. w = "job" \/ w \in Admins
    BY DEF Workers
  <2>1. CASE MerchantLookupFails(w)
    BY <2>0, <2>1, <1>a, <1>t DEF MerchantLookupFails, Return
  <2>2. CASE Drop(w)
    <3>1. CASE row' = [row EXCEPT ![cur[w]] =
                           RowWith("dropped", copy[w].retry, copy[w].next)]
               /\ UNCHANGED lost
      BY <2>0, <2>2, <3>1, <1>a, <1>b, <1>t DEF Drop, Return, RowWith, Pickable
    <3>2. CASE lost' = [lost EXCEPT ![cur[w]] = @ + 1] /\ UNCHANGED row
      BY <2>0, <2>2, <3>2, <1>a, <1>b, <1>t DEF Drop, Return
    <3> QED BY <2>2, <3>1, <3>2 DEF Drop, Update
  <2>3. CASE NewRequestFails(w)
    BY <2>0, <2>3, <1>a, <1>t DEF NewRequestFails, Return, history
  <2>4. CASE MarkDelivering(w)
    <3>1. CASE row' = [row EXCEPT ![cur[w]] = Marked(copy[w])] /\ UNCHANGED lost
      BY <2>0, <2>4, <3>1, <1>a, <1>b, <1>t DEF MarkDelivering, Marked, RowWith, Pickable
    <3>2. CASE lost' = [lost EXCEPT ![cur[w]] = @ + 1] /\ UNCHANGED row
      BY <2>0, <2>4, <3>2, <1>a, <1>b, <1>t DEF MarkDelivering, Marked, RowWith, Pickable
    <3> QED BY <2>4, <3>1, <3>2 DEF MarkDelivering, Update
  <2>5. ASSUME NEW a \in {"2xx", "unheard", "refused"}, Send(w, a) PROVE JInv'
    BY <2>0, <2>5, <1>a, <1>b, <1>t DEF Send, Pickable
  <2>6. CASE Record(w)
    <3>2. CASE row' = [row EXCEPT ![cur[w]] = Outcome(copy[w], answer[w])]
               /\ UNCHANGED lost
      BY <2>0, <2>6, <3>2, <1>a, <1>b, <1>t
      DEF Record, Return, Outcome, SetNextRetryAt, RowWith, Pickable
    <3>3. CASE lost' = [lost EXCEPT ![cur[w]] = @ + 1] /\ UNCHANGED row
      BY <2>0, <2>6, <3>3, <1>a, <1>b, <1>t DEF Record, Return
    <3> QED BY <2>6, <3>2, <3>3 DEF Record, Update
  <2> QED BY <1>7, <2>1, <2>2, <2>3, <2>4, <2>5, <2>6 DEF DispatchStep
<1>8. CASE Shutdown
  BY <1>8, <1>a, <1>t DEF Shutdown, Return
<1>9. CASE CrashRestart
  BY <1>9, <1>a, <1>t DEF CrashRestart
<1>10. CASE UNCHANGED vars
  BY <1>10, <1>t DEF vars
<1> QED BY <1>1, <1>2, <1>3, <1>4, <1>5, <1>6, <1>7, <1>8, <1>9, <1>10 DEF Next

\* Both invariants hold in every reachable state.
THEOREM JobInvariance == Spec => [](IInv /\ JInv)
  BY Invariance, JobInit, JobStep, PTL DEF Spec

\* A delivery nobody retried by hand costs at most webhookMaxRetries requests,
\* and one more for each write of its row that failed, wherever the job stops.
THEOREM AttemptsCorrect == Spec => []AttemptsBounded
<1>1. IInv /\ JInv => AttemptsBounded
  <2> SUFFICES ASSUME IInv, JInv, NEW d \in Deliveries, manual[d] = 0
               PROVE  attempts[d] <= MaxRetries + lost[d]
    BY DEF AttemptsBounded
  <2>1. row[d].retry \in Nat /\ attempts[d] \in Nat /\ lost[d] \in Nat
    BY DEF IInv, TypeOK, Row
  <2> QED BY <2>1, MaxRetriesAssumption DEF JInv, Bounded
<1> QED BY <1>1, JobInvariance, PTL

-----------------------------------------------------------------------------
(* How many acceptances are still possible *)

Unit(b) == IF b THEN 1 ELSE 0

\* The manual retries of d that may still be answered 2xx.
Trying(d) == {a \in Admins : pc[a] # "idle" /\ cur[a] = d /\ answer[a] # "2xx"}

\* The job has left the table behind and may still be answered 2xx.
Held(d) == JobOn(d) /\ pc["job"] # "loaded" /\ answer["job"] # "2xx"

\* The job will send d, or can still fetch it.
Ready(d) == \/ row[d].status \in {"absent", "pending", "retrying"}
            \/ d \in batch
            \/ JobOn(d) /\ pc["job"] = "loaded"

\* Every acceptance, past or still possible, has its cause: the delivery
\* itself, a manual retry, a failed write, or an answer that did not arrive.
Accounted ==
    \A d \in Deliveries :
        /\ IsFiniteSet(Trying(d))
        /\ accepted[d] + Cardinality(Trying(d)) + Unit(Held(d)) + Unit(Ready(d))
             <= 1 + manual[d] + lost[d] + unheard[d]

\* A worker has an answer only while it is about to record it, and the job
\* never has in its batch the row it is working on.
OneAtATime ==
    /\ \A w \in Workers : pc[w] # "answered" => answer[w] = "none"
    /\ pc["job"] # "idle" => cur["job"] \notin batch

DInv == OneAtATime /\ Accounted

LEMMA AccountedInit == Init => DInv
<1> SUFFICES ASSUME Init PROVE DInv
  OBVIOUS
<1>1. "job" \in Workers /\ Admins \subseteq Workers
  BY DEF Workers
<1>2. \A d \in Deliveries : Trying(d) = {} /\ ~Held(d)
  BY <1>1 DEF Init, Trying, Held, JobOn
<1>3. Accounted
  BY <1>2, FS_EmptySet DEF Init, Accounted, Unit
<1> QED BY <1>1, <1>3 DEF Init, DInv, OneAtATime

\* One step moves an acceptance between the parts of the account, or adds it
\* together with its cause.
LEMMA AccountedStep == TypeOK /\ TypeOK' /\ DInv /\ [Next]_vars => DInv'
<1> SUFFICES ASSUME TypeOK, TypeOK', DInv, [Next]_vars PROVE DInv'
  OBVIOUS
<1>a. /\ 1 \in Deliveries /\ "job" \in Workers /\ Admins \subseteq Workers /\ "job" \notin Admins
      /\ \A w \in Workers : w = "job" \/ w \in Admins
      /\ NoRow.status = "absent"
  BY NDeliveriesAssumption, JobAssumption DEF NoRow, RowWith, Deliveries, Workers
<1>n. \A d \in Deliveries :
          /\ accepted[d] \in Nat /\ manual[d] \in Nat /\ lost[d] \in Nat /\ unheard[d] \in Nat
          /\ IsFiniteSet(Trying(d)) /\ Cardinality(Trying(d)) \in Nat
  BY FS_CardinalityType DEF TypeOK, DInv, Accounted
<1>m. \A d \in Deliveries : \A a :
          /\ IsFiniteSet(Trying(d) \ {a})
          /\ Cardinality(Trying(d) \ {a}) = Cardinality(Trying(d)) - Unit(a \in Trying(d))
  <2> TAKE d \in Deliveries
  <2> TAKE a
  <2> DEFINE S == Trying(d)
  <2>1. IsFiniteSet(S) /\ Cardinality(S) \in Nat
    BY <1>n
  <2> HIDE DEF S
  <2>2. /\ IsFiniteSet(S \ {a})
        /\ Cardinality(S \ {a}) = IF a \in S THEN Cardinality(S) - 1 ELSE Cardinality(S)
    BY <2>1, FS_RemoveElement
  <2>3. Cardinality(S \ {a}) = Cardinality(S) - Unit(a \in S)
    BY <2>1, <2>2 DEF Unit
  <2> QED BY <2>2, <2>3 DEF S
<1> DEFINE Sum(d) == accepted[d] + Unit(Held(d)) + Unit(Ready(d))
           Due(d) == manual[d] + lost[d] + unheard[d]
<1>u. \A d \in Deliveries : /\ Sum(d) \in Nat /\ Sum(d)' \in Nat
                            /\ Due(d) \in Nat /\ Due(d)' \in Nat
                            /\ Sum(d) + Cardinality(Trying(d)) <= 1 + Due(d)
  BY <1>n DEF TypeOK, Unit, DInv, Accounted
\* The step leaves d to the same manual retries.
<1>k. ASSUME NEW d \in Deliveries, Trying(d)' = Trying(d), Sum(d)' + Due(d) <= Sum(d) + Due(d)'
      PROVE  IsFiniteSet(Trying(d)') /\ Sum(d)' + Cardinality(Trying(d)') <= 1 + Due(d)'
  <2> HIDE DEF Sum, Due
  <2> QED BY <1>k, <1>n, <1>u
\* The step ends the manual retry a, if it is one of d.
<1>r. ASSUME NEW d \in Deliveries, NEW a, Trying(d)' = Trying(d) \ {a},
             Sum(d)' + Due(d) <= Sum(d) + Due(d)' + Unit(a \in Trying(d))
      PROVE  IsFiniteSet(Trying(d)') /\ Sum(d)' + Cardinality(Trying(d)') <= 1 + Due(d)'
  <2> HIDE DEF Sum, Due
  <2> DEFINE u == Unit(a \in Trying(d))
             n == Cardinality(Trying(d))
             m == Cardinality(Trying(d)')
  <2>1. u \in Nat
    BY DEF Unit
  <2>2. IsFiniteSet(Trying(d)') /\ m = n - u /\ n \in Nat
    BY <1>r, <1>n, <1>m
  <2>3. Sum(d)' + Due(d) <= Sum(d) + Due(d)' + u
    BY <1>r
  <2>4. Sum(d) + n <= 1 + Due(d)
    BY <1>u
  <2>5. Sum(d) \in Nat /\ Sum(d)' \in Nat /\ Due(d) \in Nat /\ Due(d)' \in Nat
    BY <1>u
  <2> HIDE DEF u, n, m
  <2>6. Sum(d)' + m <= 1 + Due(d)'
    BY <2>1, <2>2, <2>3, <2>4, <2>5
  <2> QED BY <2>2, <2>6 DEF m
<1>g. ASSUME OneAtATime',
             \A d \in Deliveries :
                 IsFiniteSet(Trying(d)') /\ Sum(d)' + Cardinality(Trying(d)') <= 1 + Due(d)'
      PROVE  DInv'
  <2> SUFFICES ASSUME NEW d \in Deliveries
               PROVE  accepted'[d] + Cardinality(Trying(d)') + Unit(Held(d))' + Unit(Ready(d))'
                        <= 1 + manual'[d] + lost'[d] + unheard'[d]
    BY <1>g DEF DInv, Accounted
  <2>1. /\ accepted'[d] \in Nat /\ manual'[d] \in Nat /\ lost'[d] \in Nat /\ unheard'[d] \in Nat
        /\ Unit(Held(d))' \in Nat /\ Unit(Ready(d))' \in Nat
    BY DEF TypeOK, Unit
  <2>2. Cardinality(Trying(d)') \in Nat
    BY <1>g, FS_CardinalityType
  <2>3. Sum(d)' + Cardinality(Trying(d)') <= 1 + Due(d)'
    BY <1>g
  <2> QED BY <2>1, <2>2, <2>3
<1> USE DEF TypeOK, DInv, OneAtATime, JobOn
<1>s. ASSUME UNCHANGED <<pc, cur, answer>> PROVE \A d \in Deliveries : Trying(d)' = Trying(d)
  BY <1>s DEF Trying
<1>j. ASSUME \A a \in Admins : pc'[a] = pc[a] /\ cur'[a] = cur[a] /\ answer'[a] = answer[a]
      PROVE  \A d \in Deliveries : Trying(d)' = Trying(d)
  BY <1>j DEF Trying
<1>1. ASSUME NEW d \in Deliveries, Enqueue(d) PROVE DInv'
  <2>1. UNCHANGED <<batch, pc, cur, answer, accepted, unheard, manual, lost>>
    BY <1>1 DEF Enqueue, history
  <2>2. \A e \in Deliveries : Sum(e)' + Due(e) <= Sum(e) + Due(e)'
    BY <1>1, <2>1 DEF Enqueue, RowWith, Held, Ready, Unit
  <2> QED BY <2>1, <2>2, <1>s, <1>k, <1>g
<1>2. ASSUME NEW d \in Deliveries, RetryTimePasses(d) PROVE DInv'
  <2>1. UNCHANGED <<batch, pc, cur, answer, accepted, unheard, manual, lost>>
    BY <1>2 DEF RetryTimePasses, history
  <2>2. \A e \in Deliveries : Sum(e)' + Due(e) <= Sum(e) + Due(e)'
    BY <1>2, <2>1 DEF RetryTimePasses, RowWith, Held, Ready, Unit
  <2> QED BY <2>1, <2>2, <1>s, <1>k, <1>g
<1>3. ASSUME UNCHANGED <<row, batch, pc, cur, answer, accepted, unheard, manual, lost>> PROVE DInv'
  <2>1. \A e \in Deliveries : Sum(e)' + Due(e) <= Sum(e) + Due(e)'
    BY <1>3 DEF Held, Ready, Unit
  <2> QED BY <1>3, <2>1, <1>s, <1>k, <1>g
<1>4. CASE FetchBatch
  <2>1. /\ UNCHANGED <<row, pc, cur, answer, accepted, unheard, manual, lost>>
        /\ pc["job"] = "idle"
        /\ \A e \in batch' : row[e].status \in {"pending", "retrying"}
    BY <1>4 DEF FetchBatch, PendingAttempts, Pickable, history
  <2>2. \A e \in Deliveries : Sum(e)' + Due(e) <= Sum(e) + Due(e)'
    BY <2>1 DEF Held, Ready, Unit
  <2> QED BY <2>1, <2>2, <1>s, <1>k, <1>g
<1>5. ASSUME NEW d \in Deliveries, TakeNext(d) PROVE DInv'
  <2>0. /\ UNCHANGED <<answer, accepted, unheard, manual>>
        /\ pc["job"] = "idle" /\ d \in batch /\ batch' = batch \ {d}
    BY <1>5 DEF TakeNext, First, Pop
  <2>1. CASE snap[d].retry >= MaxRetries
    <3>1. /\ UNCHANGED <<pc, cur>>
          /\ \/ row' = [row EXCEPT ![d] = RowWith("failed", snap[d].retry, "unset")]
                /\ UNCHANGED lost
             \/ lost' = [lost EXCEPT ![d] = @ + 1] /\ UNCHANGED row
      BY <1>5, <2>1 DEF TakeNext, Update
    <3>2. \A e \in Deliveries : Sum(e)' + Due(e) <= Sum(e) + Due(e)'
      BY <2>0, <3>1 DEF RowWith, Held, Ready, Unit
    <3> QED BY <2>0, <3>1, <3>2, <1>s, <1>k, <1>g, <1>a
  <2>2. CASE ~(snap[d].retry >= MaxRetries)
    <3>1. /\ UNCHANGED <<row, lost>> /\ pc' = [pc EXCEPT !["job"] = "loaded"]
          /\ cur' = [cur EXCEPT !["job"] = d]
      BY <1>5, <2>2 DEF TakeNext
    <3>2. \A e \in Deliveries : Sum(e)' + Due(e) <= Sum(e) + Due(e)'
      BY <2>0, <3>1, <1>a DEF Held, Ready, Unit
    <3>3. \A e \in Deliveries : Trying(e)' = Trying(e)
      BY <2>0, <3>1, <1>a, <1>j
    <3>4. OneAtATime'
      BY <2>0, <3>1, <1>a
    <3> QED BY <3>2, <3>3, <3>4, <1>k, <1>g
  <2> QED BY <2>1, <2>2
<1>6. ASSUME NEW a \in Admins, NEW d \in Deliveries, ManualRetry(a, d) PROVE DInv'
  <2>1. /\ UNCHANGED <<row, batch, answer, accepted, unheard, lost>> /\ pc[a] = "idle"
        /\ pc' = [pc EXCEPT ![a] = "loaded"] /\ cur' = [cur EXCEPT ![a] = d]
        /\ manual' = [manual EXCEPT ![d] = @ + 1]
    BY <1>6 DEF ManualRetry
  <2>2. \A e \in Deliveries : e # d =>
            Trying(e)' = Trying(e) /\ Sum(e)' + Due(e) <= Sum(e) + Due(e)'
    BY <2>1, <1>a DEF Trying, Held, Ready, Unit
  <2>3. Trying(d)' = Trying(d) \cup {a}
    BY <2>1, <1>a DEF Trying
  <2>4. /\ IsFiniteSet(Trying(d)') /\ Cardinality(Trying(d)') \in Nat
        /\ Cardinality(Trying(d)') <= Cardinality(Trying(d)) + 1
    <3> DEFINE S == Trying(d)
    <3>1. IsFiniteSet(S) /\ Cardinality(S) \in Nat
      BY <1>n
    <3> HIDE DEF S
    <3>2. /\ IsFiniteSet(S \cup {a})
          /\ Cardinality(S \cup {a}) = IF a \in S THEN Cardinality(S) ELSE Cardinality(S) + 1
      BY <3>1, FS_AddElement
    <3>3. Cardinality(S \cup {a}) \in Nat /\ Cardinality(S \cup {a}) <= Cardinality(S) + 1
      BY <3>1, <3>2
    <3> QED BY <2>3, <3>2, <3>3 DEF S
  <2>5. Sum(d)' = Sum(d) /\ Due(d)' = Due(d) + 1
    BY <2>1, <1>a DEF Held, Ready, Unit
  <2>6. Sum(d)' + Cardinality(Trying(d)') <= 1 + Due(d)'
    <3> HIDE DEF Sum, Due
    <3> QED BY <2>4, <2>5, <1>u, <1>n
  <2>7. OneAtATime'
    BY <2>1, <1>a
  <2> QED BY <2>2, <2>4, <2>6, <2>7, <1>k, <1>g
<1>7. ASSUME NEW w \in Workers, DispatchStep(w) PROVE DInv'
  \* Which of the worker's own variables a return changes.
  <2>r. ASSUME Return(w), UNCHANGED batch
        PROVE  /\ OneAtATime'
               /\ w \in Admins => /\ \A e \in Deliveries : Trying(e)' = Trying(e) \ {w}
                                  /\ pc'["job"] = pc["job"] /\ cur'["job"] = cur["job"]
                                  /\ answer'["job"] = answer["job"]
               /\ w = "job" => /\ \A e \in Deliveries : Trying(e)' = Trying(e)
                               /\ pc'["job"] = "idle"
    <3>1. OneAtATime'
      BY <2>r, <1>a DEF Return
    <3>2. w \in Admins => \A e \in Deliveries : Trying(e)' = Trying(e) \ {w}
      BY <2>r, <1>a DEF Return, Trying
    <3>3. w = "job" => \A e \in Deliveries : Trying(e)' = Trying(e)
      BY <2>r, <1>a, <1>j DEF Return
    <3> QED BY <2>r, <3>1, <3>2, <3>3, <1>a DEF Return
  <2>c. cur[w] \in Deliveries
    OBVIOUS
  \* A dispatch that ends before anything was sent.
  <2>e. ASSUME pc[w] = "loaded", Return(w), UNCHANGED <<batch, accepted, unheard, manual>>,
               \/ UNCHANGED <<row, lost>>
               \/ UNCHANGED lost /\ \E r \in Row :
                      r.status = "dropped" /\ row' = [row EXCEPT ![cur[w]] = r]
               \/ lost' = [lost EXCEPT ![cur[w]] = @ + 1] /\ UNCHANGED row
        PROVE  DInv'
    <3>1. \A e \in Deliveries : /\ row'[e] = row[e] \/ row'[e].status = "dropped"
                                /\ lost'[e] \in Nat /\ lost'[e] >= lost[e]
      BY <2>e, <2>c
    <3>2. CASE w = "job"
      <4>1. \A e \in Deliveries : Sum(e)' + Due(e) <= Sum(e) + Due(e)'
        BY <2>e, <2>r, <3>1, <3>2, <1>n DEF Held, Ready, Unit
      <4> QED BY <2>e, <2>r, <3>2, <4>1, <1>k, <1>g
    <3>3. CASE w \in Admins
      <4>1. \A e \in Deliveries :
                Sum(e)' + Due(e) <= Sum(e) + Due(e)' + Unit(w \in Trying(e))
        BY <2>e, <2>r, <3>1, <3>3, <1>n DEF Held, Ready, Unit
      <4> QED BY <2>e, <2>r, <3>3, <4>1, <1>r, <1>g
    <3> QED BY <3>2, <3>3, <1>a
  <2>1. CASE MerchantLookupFails(w)
    BY <2>1, <2>e DEF MerchantLookupFails
  <2>2. CASE Drop(w)
    <3>1. RowWith("dropped", copy[w].retry, copy[w].next) \in Row
      BY DEF RowWith, Row, WebhookDeliveryStatus
    <3>2. RowWith("dropped", copy[w].retry, copy[w].next).status = "dropped"
      BY DEF RowWith
    <3> QED BY <2>2, <2>e, <3>1, <3>2 DEF Drop, Update
  <2>3. CASE NewRequestFails(w)
    BY <2>3, <2>e DEF NewRequestFails, history
  <2>4. CASE MarkDelivering(w)
    <3>1. /\ UNCHANGED <<batch, cur, answer, accepted, unheard, manual>> /\ pc[w] = "loaded"
          /\ pc' = [pc EXCEPT ![w] = "marked"] /\ answer[w] = "none"
      BY <2>4 DEF MarkDelivering
    <3>2. \/ row' = [row EXCEPT ![cur[w]] = Marked(copy[w])] /\ UNCHANGED lost
          \/ lost' = [lost EXCEPT ![cur[w]] = @ + 1] /\ UNCHANGED row
      BY <2>4 DEF MarkDelivering, Update
    <3>3. \A e \in Deliveries : Trying(e)' = Trying(e)
      BY <3>1 DEF Trying
    <3>4. \A e \in Deliveries : Sum(e)' + Due(e) <= Sum(e) + Due(e)'
      <4>1. CASE w = "job"
        BY <3>1, <3>2, <4>1, <2>c, <1>n DEF Marked, RowWith, Held, Ready, Unit
      <4>2. CASE w \in Admins
        BY <3>1, <3>2, <4>2, <2>c, <1>a, <1>n DEF Marked, RowWith, Held, Ready, Unit
      <4> QED BY <4>1, <4>2, <1>a
    <3>5. OneAtATime'
      BY <3>1, <1>a
    <3> QED BY <3>3, <3>4, <3>5, <1>k, <1>g
  <2>5. ASSUME NEW a \in {"2xx", "unheard", "refused"}, Send(w, a) PROVE DInv'
    <3>1. /\ UNCHANGED <<row, batch, cur, manual, lost>> /\ pc[w] = "marked"
          /\ pc' = [pc EXCEPT ![w] = "answered"] /\ answer[w] = "none"
          /\ answer' = [answer EXCEPT ![w] = a]
          /\ accepted' = [accepted EXCEPT ![cur[w]] = IF a # "refused" THEN @ + 1 ELSE @]
          /\ unheard' = [unheard EXCEPT ![cur[w]] = IF a = "unheard" THEN @ + 1 ELSE @]
      BY <2>5 DEF Send
    <3>2. OneAtATime'
      BY <3>1, <1>a
    <3>3. CASE w = "job"
      <4>1. \A e \in Deliveries : Sum(e)' + Due(e) <= Sum(e) + Due(e)'
        BY <3>1, <3>3, <2>c, <1>n DEF Held, Ready, Unit
      <4>2. \A e \in Deliveries : Trying(e)' = Trying(e)
        BY <3>1, <3>3, <1>a, <1>j
      <4> QED BY <4>1, <4>2, <3>2, <1>k, <1>g
    <3>4. CASE w \in Admins /\ a = "2xx"
      <4>1. \A e \in Deliveries :
                Sum(e)' + Due(e) <= Sum(e) + Due(e)' + Unit(w \in Trying(e))
        BY <3>1, <3>4, <2>c, <1>a, <1>n DEF Held, Ready, Unit, Trying
      <4>2. \A e \in Deliveries : Trying(e)' = Trying(e) \ {w}
        BY <3>1, <3>4, <1>a DEF Trying
      <4> QED BY <4>1, <4>2, <3>2, <1>r, <1>g
    <3>5. CASE w \in Admins /\ a # "2xx"
      <4>1. \A e \in Deliveries : Sum(e)' + Due(e) <= Sum(e) + Due(e)'
        BY <3>1, <3>5, <2>c, <1>a, <1>n DEF Held, Ready, Unit
      <4>2. \A e \in Deliveries : Trying(e)' = Trying(e)
        BY <3>1, <3>5, <1>a DEF Trying
      <4> QED BY <4>1, <4>2, <3>2, <1>k, <1>g
    <3> QED BY <3>3, <3>4, <3>5, <1>a
  <2>6. CASE Record(w)
    <3>1. UNCHANGED <<batch, accepted, unheard, manual>> /\ pc[w] = "answered" /\ Return(w)
      BY <2>6 DEF Record
    <3>2. \/ row' = [row EXCEPT ![cur[w]] = Outcome(copy[w], answer[w])] /\ UNCHANGED lost
          \/ lost' = [lost EXCEPT ![cur[w]] = @ + 1] /\ UNCHANGED row
      BY <2>6 DEF Record, Update
    <3>3. Outcome(copy[w], answer[w]).status \in {"delivered", "retrying", "failed"}
      BY RowUpdates
    <3>4. answer[w] = "2xx" => Outcome(copy[w], answer[w]).status = "delivered"
      BY DEF Outcome, RowWith
    <3>5. CASE w = "job"
      <4>1. \A e \in Deliveries : Sum(e)' + Due(e) <= Sum(e) + Due(e)'
        BY <3>1, <3>2, <3>3, <3>4, <3>5, <2>c, <2>r, <1>n DEF Held, Ready, Unit
      <4> QED BY <3>1, <2>r, <3>5, <4>1, <1>k, <1>g
    <3>6. CASE w \in Admins
      <4>1. \A e \in Deliveries :
                Sum(e)' + Due(e) <= Sum(e) + Due(e)' + Unit(w \in Trying(e))
        <5>1. CASE row' = [row EXCEPT ![cur[w]] = Outcome(copy[w], answer[w])] /\ UNCHANGED lost
          BY <3>1, <5>1, <3>3, <3>4, <3>6, <2>c, <2>r, <1>n DEF Held, Ready, Unit, Trying
        <5>2. CASE lost' = [lost EXCEPT ![cur[w]] = @ + 1] /\ UNCHANGED row
          BY <3>1, <5>2, <3>6, <2>c, <2>r, <1>n DEF Held, Ready, Unit
        <5> QED BY <3>2, <5>1, <5>2
      <4> QED BY <3>1, <2>r, <3>6, <4>1, <1>r, <1>g
    <3> QED BY <3>5, <3>6, <1>a
  <2> QED BY <1>7, <2>1, <2>2, <2>3, <2>4, <2>5, <2>6 DEF DispatchStep
<1>8. CASE Shutdown
  <2>1. /\ UNCHANGED <<row, accepted, unheard, manual, lost>> /\ batch' = {} /\ pc'["job"] = "idle"
        /\ \A a \in Admins : pc'[a] = pc[a] /\ cur'[a] = cur[a] /\ answer'[a] = answer[a]
        /\ OneAtATime'
    BY <1>8, <1>a DEF Shutdown, Return
  <2>2. \A e \in Deliveries : Sum(e)' + Due(e) <= Sum(e) + Due(e)'
    BY <2>1, <1>n DEF Held, Ready, Unit
  <2> QED BY <2>1, <2>2, <1>j, <1>k, <1>g
<1>9. CASE CrashRestart
  <2>1. /\ UNCHANGED <<row, accepted, unheard, manual, lost>> /\ batch' = {} /\ OneAtATime'
        /\ \A w \in Workers : pc'[w] = "idle"
    BY <1>9 DEF CrashRestart
  <2>2. \A e \in Deliveries : Sum(e)' <= Sum(e) /\ Due(e)' = Due(e)
    BY <2>1, <1>a, <1>n DEF Held, Ready, Unit
  <2>3. \A e \in Deliveries : Trying(e)' = {}
    BY <2>1, <1>a DEF Trying
  <2>4. \A e \in Deliveries :
            IsFiniteSet(Trying(e)') /\ Sum(e)' + Cardinality(Trying(e)') <= 1 + Due(e)'
    <3> HIDE DEF Sum, Due
    <3> TAKE e \in Deliveries
    <3>1. IsFiniteSet(Trying(e)') /\ Cardinality(Trying(e)') = 0
      BY <2>3, FS_EmptySet
    <3>2. Sum(e)' <= 1 + Due(e)' /\ Sum(e)' \in Nat
      BY <2>2, <1>u, <1>n
    <3> QED BY <3>1, <3>2
  <2> QED BY <2>1, <2>4, <1>g
<1> QED
  BY <1>1, <1>2, <1>3, <1>4, <1>5, <1>6, <1>7, <1>8, <1>9
  DEF Next, vars, SetWebhookConfig, history

\* Every acceptance by a merchant after the first is due to a manual retry, to a
\* failed write or to an accepted request whose answer the dispatcher did not
\* hear, for any number of overlapping retries, stops and failures.
THEOREM DuplicatesCorrect == Spec => []DuplicatesAccounted
<1>1. Init /\ IInv => DInv
  BY AccountedInit
<1>2. TypeOK /\ DInv => DuplicatesAccounted
  <2> SUFFICES ASSUME TypeOK, DInv, NEW d \in Deliveries
               PROVE  accepted[d] <= 1 + manual[d] + lost[d] + unheard[d]
    BY DEF DuplicatesAccounted
  <2>1. Cardinality(Trying(d)) \in Nat
    BY FS_CardinalityType DEF DInv, Accounted
  <2> QED BY <2>1 DEF TypeOK, DInv, Accounted, Unit
<1> QED BY <1>1, <1>2, AccountedInit, AccountedStep, TypeCorrect, PTL DEF Spec

\* The status Notification knows of a row
Shown(r) == IF r.status \in {"pending", "delivering", "retrying"} THEN "open" ELSE r.status

LEMMA RefinesInit == Init => Notified!Init
<1> SUFFICES ASSUME Init PROVE Notified!Init
  OBVIOUS
<1> QED BY DEF Init, Notified!Init, NoRow, RowWith

LEMMA RefinesStep == IInv /\ IInv' /\ JInv /\ [Next]_vars => [Notified!Next]_(Notified!vars)
<1> SUFFICES ASSUME IInv, IInv', JInv, [Next]_vars PROVE [Notified!Next]_(Notified!vars)
  OBVIOUS
<1> DEFINE state == [d \in Deliveries |-> Shown(row[d])]
           disturbed == [d \in Deliveries |-> manual[d] + lost[d]]
           Same == UNCHANGED <<state, attempts, accepted, disturbed>>
<1>t. TypeOK /\ TypeOK'
  BY DEF IInv
<1>a. /\ "job" \in Workers /\ Admins \subseteq Workers /\ "job" \notin Admins
      /\ \A w \in Workers : w = "job" \/ w \in Admins
  BY JobAssumption DEF Workers
<1>b. \A d \in Deliveries : row[d].retry \in Nat /\ attempts[d] \in Nat /\ lost[d] \in Nat
                             /\ manual[d] \in Nat /\ row'[d].retry \in Nat
  BY <1>t DEF TypeOK, Row
<1>s. Same => [Notified!Next]_(Notified!vars)
  BY DEF Notified!vars, Shown
\* A row was written, or its write failed, in a step that sends nothing.
<1>w. ASSUME NEW d \in Deliveries, NEW r \in Row,
             \/ row' = [row EXCEPT ![d] = r] /\ UNCHANGED lost
             \/ lost' = [lost EXCEPT ![d] = @ + 1] /\ UNCHANGED row,
             UNCHANGED <<attempts, accepted, manual>>,
             Shown(row[d]) = "open" \/ manual[d] > 0 \/ lost[d] > 0,
             Shown(r) \in {"open", "delivered", "failed", "dropped"},
             r.status = "delivered" => accepted[d] > 0,
             r.status = "failed" => attempts[d] >= MaxRetries
      PROVE  [Notified!Next]_(Notified!vars)
  <2>1. CASE row' = [row EXCEPT ![d] = r] /\ UNCHANGED lost
    <3>1. /\ state' = [state EXCEPT ![d] = Shown(r)]
          /\ disturbed' = disturbed
      BY <2>1, <1>w, <1>t DEF TypeOK
    <3>2. state[d] = "open" \/ disturbed[d] > 0
      BY <1>w, <1>b
    <3>3. /\ Shown(r) = "delivered" => accepted[d] > 0
          /\ Shown(r) = "failed" => attempts[d] >= MaxRetries
      BY <1>w DEF Shown
    <3>4. Notified!Report(d, Shown(r))
      BY <3>1, <3>2, <3>3, <1>w DEF Notified!Report, Shown
    <3> QED BY <3>4, <1>w DEF Notified!Next, Notified!Ends
  <2>2. CASE lost' = [lost EXCEPT ![d] = @ + 1] /\ UNCHANGED row
    <3>0. \A e \in Deliveries :
              manual'[e] + lost'[e] = IF e = d THEN manual[e] + lost[e] + 1
                                      ELSE manual[e] + lost[e]
      BY <2>2, <1>w, <1>t, <1>b DEF TypeOK
    <3>1. state' = state /\ disturbed' = [disturbed EXCEPT ![d] = @ + 1]
      BY <2>2, <3>0
    <3>2. Notified!Disturb(d)
      BY <3>1, <1>w DEF Notified!Disturb, Shown
    <3> QED BY <3>2 DEF Notified!Next
  <2> QED BY <1>w, <2>1, <2>2
\* A worker inside Dispatch has an open row, unless it was disturbed.
<1>o. \A w \in Workers : pc[w] # "idle" =>
          Shown(row[cur[w]]) = "open" \/ manual[cur[w]] > 0 \/ lost[cur[w]] > 0
  BY <1>a, <1>b, <1>t DEF TypeOK, JInv, OnlyJob, JobOn, Pickable, Shown
<1>1. ASSUME NEW d \in Deliveries, Enqueue(d) PROVE [Notified!Next]_(Notified!vars)
  <2>1. state[d] = "absent" /\ state' = [state EXCEPT ![d] = "open"]
        /\ UNCHANGED <<attempts, accepted, disturbed>>
    BY <1>1, <1>t DEF Enqueue, RowWith, history, Shown, TypeOK
  <2>2. Notified!Enqueue(d)
    BY <2>1 DEF Notified!Enqueue, Shown
  <2> QED BY <2>2 DEF Notified!Next
<1>2. ASSUME NEW d \in Deliveries, RetryTimePasses(d) PROVE [Notified!Next]_(Notified!vars)
  <2>1. Same
    BY <1>2, <1>t DEF RetryTimePasses, RowWith, history, Shown, TypeOK
  <2> QED BY <2>1, <1>s
<1>3. CASE SetWebhookConfig
  BY <1>3, <1>s DEF SetWebhookConfig, history
<1>4. CASE FetchBatch
  BY <1>4, <1>s DEF FetchBatch, history
<1>5. ASSUME NEW d \in Deliveries, TakeNext(d) PROVE [Notified!Next]_(Notified!vars)
  <2>1. CASE snap[d].retry >= MaxRetries
    <3> DEFINE r == RowWith("failed", snap[d].retry, "unset")
    <3>1. manual[d] > 0
      BY <1>5, <2>1, <1>b, MaxRetriesAssumption
      DEF TakeNext, First, JInv, OnlyJob, Bounded, Pickable
    <3>2. r \in Row /\ r.status = "failed" /\ Shown(r) = "failed"
      BY <1>t DEF RowWith, Row, WebhookDeliveryStatus, TypeOK, Shown
    <3>3. attempts[d] >= MaxRetries
      <4>1. snap[d].retry <= attempts[d] /\ snap[d].retry \in Nat
        BY <1>t DEF IInv, CopiesCounted, TypeOK, Row
      <4> QED BY <4>1, <2>1, <1>b, MaxRetriesAssumption
    <3>4. /\ \/ row' = [row EXCEPT ![d] = r] /\ UNCHANGED lost
             \/ lost' = [lost EXCEPT ![d] = @ + 1] /\ UNCHANGED row
          /\ UNCHANGED <<attempts, accepted, manual>>
      BY <1>5, <2>1 DEF TakeNext, Update
    <3> HIDE DEF r
    <3> QED BY <3>1, <3>2, <3>3, <3>4, <1>w
  <2>2. CASE ~(snap[d].retry >= MaxRetries)
    BY <1>5, <2>2, <1>s DEF TakeNext
  <2> QED BY <2>1, <2>2
<1>6. ASSUME NEW a \in Admins, NEW d \in Deliveries, ManualRetry(a, d)
      PROVE  [Notified!Next]_(Notified!vars)
  <2>0. \A e \in Deliveries :
            manual'[e] + lost'[e] = IF e = d THEN manual[e] + lost[e] + 1
                                    ELSE manual[e] + lost[e]
    BY <1>6, <1>t, <1>b DEF ManualRetry, TypeOK
  <2>1. disturbed' = [disturbed EXCEPT ![d] = @ + 1] /\ UNCHANGED <<row, attempts, accepted>>
    BY <1>6, <2>0 DEF ManualRetry
  <2>2. Notified!Disturb(d)
    BY <2>1 DEF Notified!Disturb
  <2> QED BY <2>2 DEF Notified!Next
<1>7. ASSUME NEW w \in Workers, DispatchStep(w) PROVE [Notified!Next]_(Notified!vars)
  <2>c. cur[w] \in Deliveries /\ copy[w] \in Row /\ copy[w].retry \in Nat
    BY <1>t DEF TypeOK, Row
  <2>1. CASE MerchantLookupFails(w)
    BY <2>1, <1>s DEF MerchantLookupFails
  <2>2. CASE Drop(w)
    <3> DEFINE r == RowWith("dropped", copy[w].retry, copy[w].next)
    <3>1. r \in Row /\ r.status = "dropped" /\ Shown(r) = "dropped"
      BY <2>c DEF RowWith, Row, WebhookDeliveryStatus, Shown
    <3>2. /\ \/ row' = [row EXCEPT ![cur[w]] = r] /\ UNCHANGED lost
             \/ lost' = [lost EXCEPT ![cur[w]] = @ + 1] /\ UNCHANGED row
          /\ UNCHANGED <<attempts, accepted, manual>> /\ pc[w] # "idle"
      BY <2>2 DEF Drop, Update
    <3> HIDE DEF r
    <3> QED BY <3>1, <3>2, <2>c, <1>w, <1>o
  <2>3. CASE NewRequestFails(w)
    BY <2>3, <1>s DEF NewRequestFails, history
  <2>4. CASE MarkDelivering(w)
    <3> DEFINE r == Marked(copy[w])
    <3>1. r \in Row /\ r.status = "delivering" /\ Shown(r) = "open"
      BY <2>c, RowUpdates DEF Shown
    <3>2. /\ \/ row' = [row EXCEPT ![cur[w]] = r] /\ UNCHANGED lost
             \/ lost' = [lost EXCEPT ![cur[w]] = @ + 1] /\ UNCHANGED row
          /\ UNCHANGED <<attempts, accepted, manual>> /\ pc[w] # "idle"
      BY <2>4 DEF MarkDelivering, Update
    <3> HIDE DEF r
    <3> QED BY <3>1, <3>2, <2>c, <1>w, <1>o
  <2>5. ASSUME NEW a \in {"2xx", "unheard", "refused"}, Send(w, a) PROVE [Notified!Next]_(Notified!vars)
    <3>1. state[cur[w]] = "open" \/ disturbed[cur[w]] > 0
      BY <2>5, <2>c, <1>o, <1>b DEF Send
    <3>2. /\ attempts' = [attempts EXCEPT ![cur[w]] = @ + 1]
          /\ accepted' = [accepted EXCEPT ![cur[w]] = IF a # "refused" THEN @ + 1 ELSE @]
          /\ UNCHANGED <<state, disturbed>>
      BY <2>5 DEF Send
    <3>3. Notified!Attempt(cur[w], a # "refused")
      BY <3>1, <3>2 DEF Notified!Attempt, Shown
    <3> QED BY <3>3, <2>c DEF Notified!Next
  <2>6. CASE Record(w)
    <3> DEFINE r == Outcome(copy[w], answer[w])
    <3>1. /\ r \in Row /\ r.status \in {"delivered", "retrying", "failed"}
          /\ r.retry \in {copy[w].retry, copy[w].retry + 1}
          /\ r.status = "failed" => r.retry >= MaxRetries
      BY <2>c, RowUpdates
    <3>2. Shown(r) \in {"open", "delivered", "failed", "dropped"}
      BY <3>1 DEF Shown
    <3>3. r.status = "delivered" => accepted[cur[w]] > 0
      BY <2>6 DEF Record, Outcome, SetNextRetryAt, RowWith, JInv, AnswerCounted
    <3>4. /\ \/ row' = [row EXCEPT ![cur[w]] = r] /\ UNCHANGED lost
             \/ lost' = [lost EXCEPT ![cur[w]] = @ + 1] /\ UNCHANGED row
          /\ UNCHANGED <<attempts, accepted, manual>> /\ pc[w] = "answered"
      BY <2>6 DEF Record, Update
    <3> HIDE DEF r
    <3>5. r.status = "failed" => attempts[cur[w]] >= MaxRetries
      <4>1. copy[w].retry + 1 <= attempts[cur[w]]
        BY <3>4 DEF IInv, CopiesCounted
      <4> QED BY <4>1, <3>1, <2>c, <1>b, MaxRetriesAssumption
    <3>6. pc[w] # "idle"
      BY <3>4
    <3> QED BY <3>1, <3>2, <3>3, <3>4, <3>5, <3>6, <2>c, <1>w, <1>o
  <2> QED BY <1>7, <2>1, <2>2, <2>3, <2>4, <2>5, <2>6 DEF DispatchStep
<1>8. CASE Shutdown
  BY <1>8, <1>s DEF Shutdown
<1>9. CASE CrashRestart
  BY <1>9, <1>s DEF CrashRestart
<1>10. CASE UNCHANGED vars
  BY <1>10, <1>s DEF vars
<1> QED BY <1>1, <1>2, <1>3, <1>4, <1>5, <1>6, <1>7, <1>8, <1>9, <1>10 DEF Next

\* The engine implements Notification: what webhook_logs says of a delivery is
\* true, and lasts unless someone retries by hand or a write fails.
THEOREM Refinement == Spec => Implements
<1>1. Spec => []IInv /\ []JInv
  BY JobInvariance, PTL
<1> QED
  BY <1>1, RefinesInit, RefinesStep, PTL DEF Spec, Implements, Notified!Spec

=============================================================================
