--------------------------- MODULE PartnerSession ---------------------------
(***************************************************************************)
(* Quotes, payment requests and partner payment sessions: a quote is       *)
(* consumed by CreateSession, which inserts a payment request and a        *)
(* session; readers and jobs expire what is past its time; the indexer's   *)
(* REQUEST_PAYMENT_RECEIVED completes a request and its session.           *)
(*                                                                         *)
(* The session and the quote are written in one transaction that locks the *)
(* quote. The request is not: its repository ignores the transaction. Every *)
(* expiry is a read, a decision and a later write that checks nothing.     *)
(***************************************************************************)
EXTENDS Integers, FiniteSets

CONSTANTS
    Quotes,         \* quotes of CreateQuote and of CreatePayment's first stage
    Unlimited,      \* quotes with expires_in "unlimited"
    Calls,          \* calls of CreateSession, each on one quote
    QuoteOf,        \* the quote_id of each call
    Standalone,     \* payment requests of CreatePaymentRequest, without session
    Expirers,       \* what may expire a row (AllExpirers in the code)
    MaxFaults,      \* bound: failed writes and answers lost
    MaxCrashes      \* bound: crashes of the process

ASSUME UnlimitedAssumption == Unlimited \subseteq Quotes
ASSUME QuoteOfAssumption == QuoteOf \in [Calls -> Quotes]
ASSUME DisjointAssumption == /\ Calls \cap Standalone = {}
                             /\ Calls \cap Quotes = {}
                             /\ Quotes \cap Standalone = {}
\* The three jobs and the two reads that expire a row. main starts only the
\* job of payment_requests.
AllExpirers == {"quoteJob", "sessionJob", "requestJob", "GetPaymentRequest", "GetPayment"}

ASSUME ExpirersAssumption == Expirers \subseteq AllExpirers
ASSUME SessionBoundsAssumption == MaxFaults \in Nat /\ MaxCrashes \in Nat

\* The request and the session that a call creates are named after the call.
Requests == Calls \cup Standalone

Nobody == "none"
ASSUME NobodyAssumption == Nobody \notin Calls

VARIABLES
    quote,          \* table payment_quotes: the status column
    request,        \* table payment_requests
    session,        \* table partner_payment_sessions
    qlock,          \* the call whose transaction holds the quote's row lock
    pc,             \* where each call of CreateSession is
    passed,         \* what is past its expires_at
    due,            \* what each expirer has read and is about to expire
    jobUp,          \* the goroutine of requestJob is running
    paid,           \* requests paid on chain
    hook,           \* where the indexer's notification of each payment is
    inTime,         \* history: rows completed before their expires_at, per table
    lost,           \* history: completions of each request that failed
    faults, crashes \* history: errors; crashes

vars == <<quote, request, session, qlock, pc, passed, due, jobUp, paid, hook,
          inTime, lost, faults, crashes>>

\* A request and a session expire with their quote.
ExpiryOf(x) == IF x \in Calls THEN QuoteOf[x] ELSE x

Past(x) == ExpiryOf(x) \in passed

TypeOK ==
    /\ quote \in [Quotes -> {"none", "active", "used", "expired"}]
    /\ request \in [Requests -> {"none", "pending", "completed", "expired"}]
    /\ session \in [Calls -> {"none", "pending", "completed", "expired"}]
    /\ qlock \in [Quotes -> Calls \cup {Nobody}]
    /\ pc \in [Calls -> {"start", "loaded", "requested", "done", "failed"}]
    /\ passed \subseteq (Quotes \ Unlimited) \cup Standalone
    /\ due \in [Expirers -> SUBSET (Quotes \cup Requests)]
    /\ jobUp \in BOOLEAN
    /\ paid \subseteq Requests
    /\ hook \in [Requests -> {"idle", "received", "half", "answered"}]
    /\ inTime \in [{"request", "session"} -> SUBSET Requests]
    /\ lost \in [Requests -> Nat]
    /\ faults \in Nat /\ crashes \in Nat

Init ==
    /\ quote = [q \in Quotes |-> "none"]
    /\ request = [r \in Requests |-> "none"]
    /\ session = [c \in Calls |-> "none"]
    /\ qlock = [q \in Quotes |-> Nobody]
    /\ pc = [c \in Calls |-> "start"]
    /\ passed = {}
    /\ due = [e \in Expirers |-> {}]
    /\ jobUp = TRUE
    /\ paid = {}
    /\ hook = [r \in Requests |-> "idle"]
    /\ inTime = [t \in {"request", "session"} |-> {}]
    /\ lost = [r \in Requests |-> 0]
    /\ faults = 0 /\ crashes = 0

payment == <<paid, hook, inTime, lost>>
history == <<faults, crashes>>

Fault == faults < MaxFaults /\ faults' = faults + 1

-----------------------------------------------------------------------------
(* Time, quotes, and requests without a session *)

CreateQuote(q) ==
    /\ quote[q] = "none"
    /\ quote' = [quote EXCEPT ![q] = "active"]
    /\ UNCHANGED <<request, session, qlock, pc, passed, due, jobUp, payment, history>>

CreatePaymentRequest(r) ==
    /\ r \in Standalone
    /\ request[r] = "none"
    /\ request' = [request EXCEPT ![r] = "pending"]
    /\ UNCHANGED <<quote, session, qlock, pc, passed, due, jobUp, payment, history>>

\* The clock passes an expires_at. An unlimited quote expires in the year 9999.
Elapse(x) ==
    /\ x \notin passed
    /\ \/ x \in Quotes \ Unlimited /\ quote[x] # "none"
       \/ x \in Standalone /\ request[x] # "none"
    /\ passed' = passed \cup {x}
    /\ UNCHANGED <<quote, request, session, qlock, pc, due, jobUp, payment, history>>

-----------------------------------------------------------------------------
(* CreateSession *)

Unlocked(c) == [qlock EXCEPT ![QuoteOf[c]] = Nobody]

\* Faulty variant: WithLock forgotten.
LoadQuoteUnlocked(c) ==
    /\ pc[c] = "start"
    /\ quote[QuoteOf[c]] = "active"
    /\ QuoteOf[c] \notin passed
    /\ pc' = [pc EXCEPT ![c] = "loaded"]
    /\ UNCHANGED <<quote, request, session, qlock, passed, due, jobUp, payment, history>>

\* The quote is read with a row lock, once no other transaction holds it, and
\* must be active and in time.
LoadQuote(c) ==
    /\ pc[c] = "start"
    /\ qlock[QuoteOf[c]] = Nobody
    /\ quote[QuoteOf[c]] = "active"
    /\ QuoteOf[c] \notin passed
    /\ qlock' = [qlock EXCEPT ![QuoteOf[c]] = c]
    /\ pc' = [pc EXCEPT ![c] = "loaded"]
    /\ UNCHANGED <<quote, request, session, passed, due, jobUp, payment, history>>

RefuseQuote(c) ==
    /\ pc[c] = "start"
    /\ qlock[QuoteOf[c]] = Nobody
    /\ quote[QuoteOf[c]] # "active" \/ QuoteOf[c] \in passed
    /\ pc' = [pc EXCEPT ![c] = "failed"]
    /\ UNCHANGED <<quote, request, session, qlock, passed, due, jobUp, payment, history>>

\* The request is inserted on a connection of its own: it is there at once.
InsertRequest(c) ==
    /\ pc[c] = "loaded"
    /\ request' = [request EXCEPT ![c] = "pending"]
    /\ pc' = [pc EXCEPT ![c] = "requested"]
    /\ UNCHANGED <<quote, session, qlock, passed, due, jobUp, payment, history>>

\* Another merchant's quote, an unknown chain or token, no instruction, no
\* payment code, a failed insert, a timeout: the transaction is rolled back.
RollBack(c) ==
    /\ pc[c] \in {"loaded", "requested"}
    /\ qlock' = Unlocked(c)
    /\ pc' = [pc EXCEPT ![c] = "failed"]
    /\ UNCHANGED <<quote, request, session, passed, due, jobUp, payment, history>>

\* The session is inserted, the quote is marked used, and both are committed.
CommitSession(c) ==
    /\ pc[c] = "requested"
    /\ session' = [session EXCEPT ![c] = "pending"]
    /\ quote' = [quote EXCEPT ![QuoteOf[c]] = "used"]
    /\ qlock' = Unlocked(c)
    /\ pc' = [pc EXCEPT ![c] = "done"]
    /\ UNCHANGED <<request, passed, due, jobUp, payment, history>>

-----------------------------------------------------------------------------
(* Expiry *)

\* Faulty variants of GetExpiredPending: without the status, joined with the
\* sessions.
ExpiredRequestsAnyStatus == {r \in Requests : request[r] # "none" /\ Past(r)}
ExpiredRequestsOfSessions ==
    {r \in Calls : request[r] = "pending" /\ session[r] # "none" /\ Past(r)}

\* GetExpiredActive and the two GetExpiredPending
ExpiredActive == {q \in Quotes : quote[q] = "active" /\ Past(q)}
ExpiredPendingRequests == {r \in Requests : request[r] = "pending" /\ Past(r)}
ExpiredPendingSessions == {c \in Calls : session[c] = "pending" /\ Past(c)}

Expirable(e) == IF e = "quoteJob" THEN ExpiredActive
                ELSE IF e \in {"sessionJob", "GetPayment"} THEN ExpiredPendingSessions
                ELSE ExpiredPendingRequests

\* A job selects a batch (at most 100 rows of those that qualify); a read looks
\* at one row.
Scan(e) ==
    /\ e = "requestJob" => jobUp
    /\ due[e] = {}
    /\ \E B \in SUBSET Expirable(e) :
          /\ B # {}
          /\ e \in {"GetPaymentRequest", "GetPayment"} => Cardinality(B) = 1
          /\ due' = [due EXCEPT ![e] = B]
    /\ UNCHANGED <<quote, request, session, qlock, pc, passed, jobUp, payment, history>>

ExpireIn(table, B) ==
    [x \in DOMAIN table |-> IF x \in B THEN "expired" ELSE table[x]]

\* UPDATE ... WHERE id IN ids: whatever the rows have become. A quote's row
\* lock makes the update wait.
Expire(e) ==
    /\ due[e] # {}
    /\ \/ /\ e = "quoteJob"
          /\ \A q \in due[e] : qlock[q] = Nobody
          /\ quote' = ExpireIn(quote, due[e])
          /\ UNCHANGED <<request, session>>
       \/ /\ e \in {"sessionJob", "GetPayment"}
          /\ session' = ExpireIn(session, due[e])
          /\ UNCHANGED <<quote, request>>
       \/ /\ e \in {"requestJob", "GetPaymentRequest"}
          /\ request' = ExpireIn(request, due[e])
          /\ UNCHANGED <<quote, session>>
    /\ due' = [due EXCEPT ![e] = {}]
    /\ UNCHANGED <<qlock, pc, passed, jobUp, payment, history>>

\* The UPDATE fails: the error is logged, and the rows wait for another scan.
ExpireFails(e) ==
    /\ due[e] # {}
    /\ Fault
    /\ due' = [due EXCEPT ![e] = {}]
    /\ UNCHANGED <<quote, request, session, qlock, pc, passed, jobUp, payment, crashes>>

-----------------------------------------------------------------------------
(* Payment *)

\* A payer who has the instruction may use it at any time, late ones included.
Pay(r) ==
    /\ r \notin paid
    /\ IF r \in Calls THEN session[r] # "none" ELSE request[r] # "none"
    /\ paid' = paid \cup {r}
    /\ UNCHANGED <<quote, request, session, qlock, pc, passed, due, jobUp, hook,
                   inTime, lost, history>>

\* REQUEST_PAYMENT_RECEIVED arrives, again if the answer was lost.
Notify(r) ==
    /\ r \in paid
    /\ \/ hook[r] = "idle" /\ UNCHANGED faults
       \/ hook[r] = "answered" /\ Fault
    /\ hook' = [hook EXCEPT ![r] = "received"]
    /\ UNCHANGED <<quote, request, session, qlock, pc, passed, due, jobUp, paid,
                   inTime, lost, crashes>>

InTime(t, r) == IF Past(r) THEN inTime ELSE [inTime EXCEPT ![t] = @ \cup {r}]

\* MarkCompleted of the request, whatever its status; an error is only logged.
MarkRequest(r) ==
    /\ hook[r] = "received"
    /\ hook' = [hook EXCEPT ![r] = "half"]
    /\ \/ /\ request' = [request EXCEPT ![r] = "completed"]
          /\ inTime' = InTime("request", r)
          /\ UNCHANGED <<lost, faults>>
       \/ /\ Fault
          /\ lost' = [lost EXCEPT ![r] = @ + 1]
          /\ UNCHANGED <<request, inTime>>
    /\ UNCHANGED <<quote, session, qlock, pc, passed, due, jobUp, paid, crashes>>

\* The session of the request, if there is one, is completed by a second
\* statement; an error is only logged. 200 is answered in any case.
MarkSession(r) ==
    /\ hook[r] = "half"
    /\ hook' = [hook EXCEPT ![r] = "answered"]
    /\ \/ /\ r \in Standalone
          /\ UNCHANGED <<session, inTime, lost, faults>>
       \/ /\ r \in Calls
          /\ session' = [session EXCEPT ![r] = "completed"]
          /\ inTime' = InTime("session", r)
          /\ UNCHANGED <<lost, faults>>
       \/ /\ r \in Calls
          /\ Fault
          /\ lost' = [lost EXCEPT ![r] = @ + 1]
          /\ UNCHANGED <<session, inTime>>
    /\ UNCHANGED <<quote, request, qlock, pc, passed, due, jobUp, paid, crashes>>

-----------------------------------------------------------------------------
(* Stopping *)

\* SIGTERM stops the request job and cancels its context, which aborts an UPDATE
\* it has not finished; the HTTP server is not stopped and goes on serving.
Shutdown ==
    /\ jobUp
    /\ jobUp' = FALSE
    /\ due' = [e \in Expirers |-> IF e = "requestJob" THEN {} ELSE due[e]]
    /\ UNCHANGED <<quote, request, session, qlock, pc, passed, payment, history>>

\* The process dies and is started again: open transactions are rolled back,
\* what was read and decided is forgotten, and the indexer will send its
\* notification again.
Crash ==
    /\ crashes < MaxCrashes
    /\ crashes' = crashes + 1
    /\ qlock' = [q \in Quotes |-> Nobody]
    /\ pc' = [c \in Calls |-> IF pc[c] \in {"loaded", "requested"} THEN "failed"
                                                                  ELSE pc[c]]
    /\ due' = [e \in Expirers |-> {}]
    /\ jobUp' = TRUE
    /\ hook' = [r \in Requests |-> IF hook[r] \in {"received", "half"} THEN "idle"
                                                                      ELSE hook[r]]
    /\ UNCHANGED <<quote, request, session, passed, paid, inTime, lost, faults>>

CallStep(c) == \/ LoadQuote(c)
               \/ RefuseQuote(c)
               \/ InsertRequest(c)
               \/ RollBack(c)
               \/ CommitSession(c)

Next == \/ \E q \in Quotes : CreateQuote(q)
        \/ \E r \in Standalone : CreatePaymentRequest(r)
        \/ \E x \in Quotes \cup Standalone : Elapse(x)
        \/ \E c \in Calls : CallStep(c)
        \/ \E e \in Expirers : Scan(e)
        \/ \E e \in Expirers : Expire(e) \/ ExpireFails(e)
        \/ \E r \in Requests : Pay(r) \/ Notify(r) \/ MarkRequest(r) \/ MarkSession(r)
        \/ Shutdown
        \/ Crash

\* The ticker of the request job, the only one that main starts, ticks while the
\* job is up, and its statements end. Nothing is assumed of payers, callers, the
\* clock, or of a process being started again after a stop.
Fairness == \A e \in Expirers \cap {"requestJob"} :
                WF_vars(Scan(e)) /\ WF_vars(Expire(e))

Spec == Init /\ [][Next]_vars /\ Fairness

-----------------------------------------------------------------------------
(* Properties *)

\* A quote is consumed by at most one session, however many calls of
\* CreateSession race for it (the row lock and the test of its status).
QuoteBacksOneSession ==
    \A c, d \in Calls :
        session[c] # "none" /\ session[d] # "none" /\ QuoteOf[c] = QuoteOf[d] => c = d

\* A session is never without the request that the payer pays, and its quote is
\* no longer for sale.
SessionBacked ==
    \A c \in Calls : session[c] # "none" =>
        /\ request[c] # "none"
        /\ quote[QuoteOf[c]] \in {"used", "expired"}

\* Nothing expires before its time, however long ago its expirer read it.
ExpiredIsPast ==
    /\ \A q \in Quotes : quote[q] = "expired" => Past(q)
    /\ \A r \in Requests : request[r] = "expired" => Past(r)
    /\ \A c \in Calls : session[c] = "expired" => Past(c)

\* What was completed before its expires_at stays completed: no expirer, however
\* late its write, takes the payment back.
PaidInTimeIsFinal ==
    /\ \A r \in inTime["request"] : request[r] = "completed"
    /\ \A c \in inTime["session"] : session[c] = "completed"

\* Once a notification was answered, and unless a write failed, request and
\* session are both completed; only an expirer that overlapped a late payment
\* can have undone one of them.
AnsweredIsSettled ==
    \A r \in Requests : hook[r] = "answered" /\ lost[r] = 0 =>
        /\ request[r] = "completed" \/ Past(r)
        /\ r \in Calls => session[r] = "completed" \/ Past(r)

\* A request past its time does not stay pending, also the one whose session
\* was never created, unless SIGTERM stops the job; the restart owes it again.
PendingRequestsEnd ==
    \A r \in Requests :
        request[r] = "pending" /\ Past(r) ~> request[r] # "pending" \/ ~jobUp

=============================================================================
