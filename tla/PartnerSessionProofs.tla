------------------------ MODULE PartnerSessionProofs ------------------------
(***************************************************************************)
(* TLAPS proofs about PartnerSession, for any number of quotes, calls,     *)
(* requests and overlapping expirers.                                      *)
(*                                                                         *)
(* That a quote backs one session needs what a call in its transaction     *)
(* knows: it alone has the lock and the quote is still active. That a      *)
(* payment in time is final needs what an expirer knows between its read   *)
(* and its write: everything it is about to expire is past its time and    *)
(* was not completed in time.                                              *)
(***************************************************************************)
EXTENDS PartnerSession, TLAPS

\* A call inside its transaction, and after it.
CallInv ==
    \A c \in Calls :
        /\ pc[c] \in {"loaded", "requested"} =>
              qlock[QuoteOf[c]] = c /\ quote[QuoteOf[c]] = "active"
        /\ pc[c] = "requested" => request[c] # "none"
        /\ session[c] # "none" => pc[c] = "done"

SessionExpirers == {"sessionJob", "GetPayment"}
RequestExpirers == {"requestJob", "GetPaymentRequest"}

\* What an expirer holds between its read and its write.
DueInv ==
    \A e \in Expirers : \A x \in due[e] :
        /\ Past(x)
        /\ e = "quoteJob" => x \in Quotes
        /\ e \in SessionExpirers =>
              x \in Calls /\ session[x] # "none" /\ x \notin inTime["session"]
        /\ e \in RequestExpirers =>
              x \in Requests /\ request[x] # "none" /\ x \notin inTime["request"]

\* Only what exists is paid, and only what is paid is notified.
PaidInv ==
    /\ \A r \in Requests : hook[r] # "idle" => r \in paid
    /\ \A r \in paid : IF r \in Calls THEN session[r] # "none" ELSE request[r] # "none"
    /\ inTime["session"] \subseteq Calls
    /\ inTime["request"] \subseteq paid

\* A notification that is half applied.
HalfInv ==
    \A r \in Requests : hook[r] = "half" /\ lost[r] = 0 =>
        request[r] = "completed" \/ Past(r)

IInv == /\ TypeOK
        /\ CallInv
        /\ DueInv
        /\ PaidInv
        /\ HalfInv
        /\ QuoteBacksOneSession
        /\ SessionBacked
        /\ ExpiredIsPast
        /\ PaidInTimeIsFinal
        /\ AnsweredIsSettled

LEMMA InitInv == Init => IInv
<1> SUFFICES ASSUME Init PROVE IInv
  OBVIOUS
<1>1. TypeOK
  BY DEF Init, TypeOK
<1>2. CallInv /\ DueInv /\ PaidInv /\ HalfInv
  BY DEF Init, CallInv, DueInv, PaidInv, HalfInv, Requests
<1>3. QuoteBacksOneSession /\ SessionBacked /\ ExpiredIsPast
  BY DEF Init, QuoteBacksOneSession, SessionBacked, ExpiredIsPast, Requests
<1>4. PaidInTimeIsFinal /\ AnsweredIsSettled
  BY DEF Init, PaidInTimeIsFinal, AnsweredIsSettled
<1> QED  BY <1>1, <1>2, <1>3, <1>4 DEF IInv

-----------------------------------------------------------------------------
(* Quotes, requests and time *)

LEMMA CreateQuoteInv == ASSUME IInv, NEW q \in Quotes, CreateQuote(q)
                        PROVE  IInv'
<1> USE DEF IInv
<1>1. TypeOK'
  BY DEF CreateQuote, TypeOK, payment, history
<1>2. CallInv'
  BY QuoteOfAssumption DEF CreateQuote, TypeOK, CallInv
<1>3. (DueInv /\ PaidInv /\ HalfInv /\ AnsweredIsSettled /\ PaidInTimeIsFinal)'
  BY DEF CreateQuote, DueInv, PaidInv, HalfInv, AnsweredIsSettled, PaidInTimeIsFinal,
         Past, payment
<1>4. (QuoteBacksOneSession /\ SessionBacked)'
  BY QuoteOfAssumption DEF CreateQuote, TypeOK, QuoteBacksOneSession, SessionBacked
<1>5. ExpiredIsPast'
  BY DEF CreateQuote, TypeOK, ExpiredIsPast, Past
<1> QED  BY <1>1, <1>2, <1>3, <1>4, <1>5

LEMMA CreatePaymentRequestInv ==
    ASSUME IInv, NEW r \in Standalone, CreatePaymentRequest(r)
    PROVE  IInv'
<1> USE DEF IInv
<1>0. r \in Requests /\ r \notin Calls
  BY DisjointAssumption DEF Requests
<1>1. TypeOK'
  BY <1>0 DEF CreatePaymentRequest, TypeOK, payment, history
<1>2. (CallInv /\ QuoteBacksOneSession /\ SessionBacked)'
  BY <1>0 DEF CreatePaymentRequest, TypeOK, CallInv, QuoteBacksOneSession,
              SessionBacked, Requests
<1>3. DueInv' /\ PaidInv'
  BY <1>0 DEF CreatePaymentRequest, TypeOK, DueInv, PaidInv, Past, payment
<1>4. (HalfInv /\ AnsweredIsSettled /\ PaidInTimeIsFinal)'
  BY <1>0 DEF CreatePaymentRequest, TypeOK, HalfInv, AnsweredIsSettled,
              PaidInTimeIsFinal, Past, payment
<1>5. ExpiredIsPast'
  BY <1>0 DEF CreatePaymentRequest, TypeOK, ExpiredIsPast, Past
<1> QED  BY <1>1, <1>2, <1>3, <1>4, <1>5

LEMMA ElapseInv == ASSUME IInv, NEW x \in Quotes \cup Standalone, Elapse(x)
                   PROVE  IInv'
<1> USE DEF IInv
<1>1. TypeOK'
  BY DEF Elapse, TypeOK, payment, history
<1>2. \A y : Past(y) => Past(y)'
  BY DEF Elapse, Past
<1>3. (CallInv /\ QuoteBacksOneSession /\ SessionBacked /\ PaidInv /\ PaidInTimeIsFinal)'
  BY DEF Elapse, CallInv, QuoteBacksOneSession, SessionBacked, PaidInv,
         PaidInTimeIsFinal, payment
<1>4. DueInv' /\ ExpiredIsPast'
  BY <1>2 DEF Elapse, DueInv, ExpiredIsPast, payment
<1>5. HalfInv' /\ AnsweredIsSettled'
  BY <1>2 DEF Elapse, HalfInv, AnsweredIsSettled, payment
<1> QED  BY <1>1, <1>3, <1>4, <1>5

-----------------------------------------------------------------------------
(* CreateSession *)

LEMMA LoadQuoteInv == ASSUME IInv, NEW c \in Calls, LoadQuote(c) \/ RefuseQuote(c)
                      PROVE  IInv'
<1> USE DEF IInv
<1>1. /\ UNCHANGED <<quote, request, session, passed, due, jobUp, payment, history>>
      /\ pc[c] = "start"
  BY DEF LoadQuote, RefuseQuote
<1>2. QuoteOf[c] \in Quotes
  BY QuoteOfAssumption
<1>3. TypeOK'
  BY <1>2 DEF LoadQuote, RefuseQuote, TypeOK, payment, history
<1>4. CallInv'
  <2>1. CASE LoadQuote(c)
    BY <2>1, <1>2, QuoteOfAssumption, NobodyAssumption DEF LoadQuote, TypeOK, CallInv
  <2>2. CASE RefuseQuote(c)
    BY <2>2 DEF RefuseQuote, TypeOK, CallInv
  <2> QED  BY <2>1, <2>2
<1>5. (DueInv /\ PaidInv /\ HalfInv /\ AnsweredIsSettled /\ PaidInTimeIsFinal)'
  BY <1>1 DEF DueInv, PaidInv, HalfInv, AnsweredIsSettled, PaidInTimeIsFinal,
              Past, payment
<1>6. (QuoteBacksOneSession /\ SessionBacked /\ ExpiredIsPast)'
  BY <1>1 DEF QuoteBacksOneSession, SessionBacked, ExpiredIsPast, Past
<1> QED  BY <1>3, <1>4, <1>5, <1>6

LEMMA InsertRequestInv == ASSUME IInv, NEW c \in Calls, InsertRequest(c)
                          PROVE  IInv'
<1> USE DEF IInv
<1>1. c \in Requests /\ c \notin paid /\ hook[c] = "idle"
  BY DEF InsertRequest, CallInv, PaidInv, TypeOK, Requests
<1>2. TypeOK'
  BY <1>1 DEF InsertRequest, TypeOK, payment, history
<1>3. CallInv'
  BY DEF InsertRequest, TypeOK, CallInv, Requests
<1>4. c \notin inTime["request"]
  BY <1>1 DEF PaidInv
<1>5. DueInv' /\ PaidInv'
  BY <1>1, <1>4 DEF InsertRequest, TypeOK, DueInv, PaidInv, Past, payment
<1>6. HalfInv' /\ AnsweredIsSettled'
  BY <1>1 DEF InsertRequest, TypeOK, HalfInv, AnsweredIsSettled, Past, payment
<1>7. PaidInTimeIsFinal'
  BY <1>4 DEF InsertRequest, TypeOK, PaidInTimeIsFinal, payment
<1>8. (QuoteBacksOneSession /\ SessionBacked /\ ExpiredIsPast)'
  BY DEF InsertRequest, TypeOK, QuoteBacksOneSession, SessionBacked, ExpiredIsPast, Past,
         Requests
<1> QED  BY <1>2, <1>3, <1>5, <1>6, <1>7, <1>8

LEMMA RollBackInv == ASSUME IInv, NEW c \in Calls, RollBack(c)
                     PROVE  IInv'
<1> USE DEF IInv
<1>1. TypeOK'
  BY QuoteOfAssumption DEF RollBack, Unlocked, TypeOK, payment, history
<1>2. CallInv'
  BY QuoteOfAssumption DEF RollBack, Unlocked, TypeOK, CallInv
<1>3. (DueInv /\ PaidInv /\ HalfInv /\ AnsweredIsSettled /\ PaidInTimeIsFinal)'
  BY DEF RollBack, DueInv, PaidInv, HalfInv, AnsweredIsSettled, PaidInTimeIsFinal,
         Past, payment
<1>4. (QuoteBacksOneSession /\ SessionBacked /\ ExpiredIsPast)'
  BY DEF RollBack, QuoteBacksOneSession, SessionBacked, ExpiredIsPast, Past
<1> QED  BY <1>1, <1>2, <1>3, <1>4

LEMMA CommitSessionInv == ASSUME IInv, NEW c \in Calls, CommitSession(c)
                          PROVE  IInv'
<1> USE DEF IInv
<1>1. /\ QuoteOf[c] \in Quotes
      /\ qlock[QuoteOf[c]] = c
      /\ quote[QuoteOf[c]] = "active"
      /\ request[c] # "none"
      /\ session[c] = "none"
  BY QuoteOfAssumption DEF CommitSession, CallInv
<1>2. \A d \in Calls : QuoteOf[d] = QuoteOf[c] => session[d] = "none"
  BY <1>1 DEF SessionBacked
<1>3. c \notin paid /\ c \in Requests
  BY <1>1 DEF PaidInv, Requests
<1>4. TypeOK'
  BY <1>1 DEF CommitSession, Unlocked, TypeOK, payment, history
<1>5. CallInv'
  BY <1>1, QuoteOfAssumption DEF CommitSession, Unlocked, TypeOK, CallInv
<1>6. QuoteBacksOneSession'
  BY <1>2 DEF CommitSession, TypeOK, QuoteBacksOneSession
<1>7. SessionBacked'
  BY <1>1, QuoteOfAssumption DEF CommitSession, TypeOK, SessionBacked
<1>8. DueInv' /\ PaidInv'
  BY <1>1, <1>3 DEF CommitSession, TypeOK, DueInv, PaidInv, Past, payment
<1>9. HalfInv' /\ AnsweredIsSettled' /\ PaidInTimeIsFinal'
  <2>1. hook[c] = "idle"
    BY <1>3 DEF PaidInv, TypeOK
  <2>2. c \notin inTime["session"]
    BY <1>1 DEF PaidInTimeIsFinal
  <2> QED  BY <2>1, <2>2 DEF CommitSession, TypeOK, HalfInv, AnsweredIsSettled,
                             PaidInTimeIsFinal, Past, payment, PaidInv
<1>10. ExpiredIsPast'
  BY <1>1 DEF CommitSession, TypeOK, ExpiredIsPast, Past
<1> QED  BY <1>4, <1>5, <1>6, <1>7, <1>8, <1>9, <1>10

-----------------------------------------------------------------------------
(* Expiry *)

LEMMA ScanInv == ASSUME IInv, NEW e \in Expirers, Scan(e)
                 PROVE  IInv'
<1> USE DEF IInv
<1>1. PICK B \in SUBSET Expirable(e) : due' = [due EXCEPT ![e] = B]
  BY DEF Scan
<1>2. \A x \in B :
        /\ Past(x)
        /\ e = "quoteJob" => x \in Quotes
        /\ e \in SessionExpirers => x \in Calls /\ session[x] = "pending"
        /\ e \in RequestExpirers => x \in Requests /\ request[x] = "pending"
        /\ x \in Quotes \cup Requests
  BY ExpirersAssumption DEF Expirable, ExpiredActive, ExpiredPendingSessions,
     ExpiredPendingRequests, SessionExpirers, RequestExpirers, Requests, AllExpirers
<1>3. TypeOK'
  BY <1>1, <1>2 DEF Scan, TypeOK, payment, history
<1>4. DueInv'
  <2> SUFFICES ASSUME NEW f \in Expirers, NEW x \in due'[f]
               PROVE  /\ Past(x)
                      /\ f = "quoteJob" => x \in Quotes
                      /\ f \in SessionExpirers =>
                            x \in Calls /\ session[x] # "none" /\ x \notin inTime["session"]
                      /\ f \in RequestExpirers =>
                            x \in Requests /\ request[x] # "none" /\ x \notin inTime["request"]
    BY DEF Scan, DueInv, Past, payment
  <2>1. CASE f = e
    <3>1. x \in B
      BY <2>1, <1>1 DEF TypeOK
    <3> QED  BY <2>1, <3>1, <1>2 DEF PaidInTimeIsFinal
  <2>2. CASE f # e
    <3>1. x \in due[f]
      BY <2>2, <1>1 DEF TypeOK
    <3> QED  BY <3>1 DEF DueInv
  <2> QED  BY <2>1, <2>2
<1>5. (CallInv /\ PaidInv /\ HalfInv /\ AnsweredIsSettled /\ PaidInTimeIsFinal)'
  BY DEF Scan, CallInv, PaidInv, HalfInv, AnsweredIsSettled, PaidInTimeIsFinal,
         Past, payment
<1>6. (QuoteBacksOneSession /\ SessionBacked /\ ExpiredIsPast)'
  BY DEF Scan, QuoteBacksOneSession, SessionBacked, ExpiredIsPast, Past
<1> QED  BY <1>3, <1>4, <1>5, <1>6

LEMMA ExpireInv == ASSUME IInv, NEW e \in Expirers, Expire(e)
                   PROVE  IInv'
<1> USE DEF IInv
<1> DEFINE B == due[e]
<1>1. /\ due' = [due EXCEPT ![e] = {}]
      /\ UNCHANGED <<qlock, pc, passed, jobUp, payment, history>>
  BY DEF Expire
<1>2. \A f \in Expirers : due'[f] \subseteq due[f]
  BY <1>1 DEF TypeOK
<1>3. CASE /\ e = "quoteJob"
           /\ \A q \in B : qlock[q] = Nobody
           /\ quote' = ExpireIn(quote, B)
           /\ UNCHANGED <<request, session>>
  <2>1. \A q \in Quotes : quote'[q] = IF q \in B THEN "expired" ELSE quote[q]
    BY <1>3 DEF ExpireIn, TypeOK
  <2>2. TypeOK'
    BY <1>1, <1>3 DEF ExpireIn, TypeOK, payment, history
  <2>3. CallInv'
    BY <1>1, <1>3, <2>1, QuoteOfAssumption, NobodyAssumption DEF CallInv
  <2>4. DueInv' /\ PaidInv'
    BY <1>1, <1>2, <1>3 DEF DueInv, PaidInv, Past, payment
  <2>5. (HalfInv /\ AnsweredIsSettled /\ PaidInTimeIsFinal)'
    BY <1>1, <1>3 DEF HalfInv, AnsweredIsSettled, PaidInTimeIsFinal, Past, payment
  <2>6. (QuoteBacksOneSession /\ SessionBacked)'
    BY <1>3, <2>1, QuoteOfAssumption DEF QuoteBacksOneSession, SessionBacked
  <2>7. ExpiredIsPast'
    BY <1>1, <1>3, <2>1 DEF ExpiredIsPast, DueInv, Past
  <2> QED  BY <2>2, <2>3, <2>4, <2>5, <2>6, <2>7
<1>4. CASE /\ e \in SessionExpirers
           /\ session' = ExpireIn(session, B)
           /\ UNCHANGED <<quote, request>>
  <2>1. \A c \in Calls : session'[c] = IF c \in B THEN "expired" ELSE session[c]
    BY <1>4 DEF ExpireIn, TypeOK
  <2>2. \A x \in B : Past(x) /\ session[x] # "none" /\ x \notin inTime["session"]
    BY <1>4 DEF DueInv
  <2>3. TypeOK'
    BY <1>1, <1>4 DEF ExpireIn, TypeOK, payment, history
  <2>4. CallInv'
    BY <1>1, <1>4, <2>1, <2>2 DEF CallInv
  <2>5. DueInv' /\ PaidInv'
    BY <1>1, <1>2, <1>4, <2>1 DEF DueInv, PaidInv, Past, payment
  <2>6. (HalfInv /\ AnsweredIsSettled)'
    BY <1>1, <1>4, <2>1, <2>2 DEF HalfInv, AnsweredIsSettled, Past, payment
  <2>7. PaidInTimeIsFinal'
    BY <1>1, <1>4, <2>1, <2>2 DEF PaidInTimeIsFinal, PaidInv, payment
  <2>8. (QuoteBacksOneSession /\ SessionBacked)'
    BY <1>4, <2>1, <2>2 DEF QuoteBacksOneSession, SessionBacked
  <2>9. ExpiredIsPast'
    BY <1>1, <1>4, <2>1, <2>2 DEF ExpiredIsPast, Past
  <2> QED  BY <2>3, <2>4, <2>5, <2>6, <2>7, <2>8, <2>9
<1>5. CASE /\ e \in RequestExpirers
           /\ request' = ExpireIn(request, B)
           /\ UNCHANGED <<quote, session>>
  <2>1. \A r \in Requests : request'[r] = IF r \in B THEN "expired" ELSE request[r]
    BY <1>5 DEF ExpireIn, TypeOK
  <2>2. \A x \in B : Past(x) /\ request[x] # "none" /\ x \notin inTime["request"]
    BY <1>5 DEF DueInv
  <2>3. TypeOK'
    BY <1>1, <1>5 DEF ExpireIn, TypeOK, payment, history
  <2>4. (CallInv /\ QuoteBacksOneSession /\ SessionBacked)'
    BY <1>1, <1>5, <2>1 DEF CallInv, QuoteBacksOneSession, SessionBacked, Requests
  <2>5. DueInv'
    BY <1>1, <1>2, <1>5, <2>1 DEF DueInv, Past, payment
  <2>6. PaidInv'
    BY <1>1, <1>5, <2>1 DEF PaidInv, TypeOK, payment
  <2>7. (HalfInv /\ AnsweredIsSettled)'
    BY <1>1, <1>5, <2>1, <2>2 DEF HalfInv, AnsweredIsSettled, Past, payment
  <2>8. PaidInTimeIsFinal'
    BY <1>1, <1>5, <2>1, <2>2 DEF PaidInTimeIsFinal, TypeOK, payment
  <2>9. ExpiredIsPast'
    BY <1>1, <1>5, <2>1, <2>2 DEF ExpiredIsPast, Past
  <2> QED  BY <2>3, <2>4, <2>5, <2>6, <2>7, <2>8, <2>9
<1> QED  BY <1>3, <1>4, <1>5 DEF Expire, SessionExpirers, RequestExpirers

\* A failed UPDATE and the end of the job only forget what was read.
LEMMA ForgetInv == ASSUME IInv, (\E e \in Expirers : ExpireFails(e)) \/ Shutdown
                   PROVE  IInv'
<1> USE DEF IInv
<1>1. /\ UNCHANGED <<quote, request, session, qlock, pc, passed, payment>>
      /\ \A e \in Expirers : due'[e] \subseteq due[e]
  BY DEF ExpireFails, Shutdown, TypeOK
<1>2. TypeOK'
  <2>1. due' \in [Expirers -> SUBSET (Quotes \cup Requests)]
    BY DEF ExpireFails, Shutdown, TypeOK
  <2>2. jobUp' \in BOOLEAN /\ faults' \in Nat /\ crashes' \in Nat
    <3>1. CASE Shutdown
      BY <3>1 DEF Shutdown, TypeOK, history
    <3>2. ASSUME NEW e \in Expirers, ExpireFails(e)
          PROVE  jobUp' \in BOOLEAN /\ faults' \in Nat /\ crashes' \in Nat
      BY <3>2 DEF ExpireFails, Fault, TypeOK
    <3> QED  BY <3>1, <3>2
  <2> QED  BY <1>1, <2>1, <2>2 DEF TypeOK, payment
<1>3. DueInv'
  BY <1>1 DEF DueInv, Past, payment
<1>4. (CallInv /\ PaidInv /\ HalfInv /\ AnsweredIsSettled /\ PaidInTimeIsFinal)'
  BY <1>1 DEF CallInv, PaidInv, HalfInv, AnsweredIsSettled, PaidInTimeIsFinal, Past, payment
<1>5. (QuoteBacksOneSession /\ SessionBacked /\ ExpiredIsPast)'
  BY <1>1 DEF QuoteBacksOneSession, SessionBacked, ExpiredIsPast, Past
<1> QED  BY <1>2, <1>3, <1>4, <1>5

-----------------------------------------------------------------------------
(* Payment *)

LEMMA PayInv == ASSUME IInv, NEW r \in Requests, Pay(r) \/ Notify(r)
                PROVE  IInv'
<1> USE DEF IInv
<1>1. /\ UNCHANGED <<quote, request, session, qlock, pc, passed, due, jobUp, inTime, lost, crashes>>
      /\ faults' \in Nat
  <2>1. CASE Pay(r)
    BY <2>1 DEF Pay, TypeOK, history
  <2>2. CASE Notify(r)
    BY <2>2 DEF Notify, Fault, TypeOK
  <2> QED  BY <2>1, <2>2
<1>2. /\ paid \subseteq paid' /\ paid' \subseteq Requests
      /\ \A x \in paid' : IF x \in Calls THEN session[x] # "none" ELSE request[x] # "none"
  BY DEF Pay, Notify, TypeOK, PaidInv
<1>3. /\ hook' \in [Requests -> {"idle", "received", "half", "answered"}]
      /\ \A x \in Requests : hook'[x] = hook[x] \/ (hook'[x] = "received" /\ x \in paid)
  BY DEF Pay, Notify, TypeOK
<1>4. TypeOK'
  BY <1>1, <1>2, <1>3 DEF TypeOK
<1>5. PaidInv'
  BY <1>1, <1>2, <1>3 DEF PaidInv, TypeOK
<1>6. (CallInv /\ DueInv /\ PaidInTimeIsFinal)'
  BY <1>1 DEF CallInv, DueInv, PaidInTimeIsFinal, Past
<1>7. (HalfInv /\ AnsweredIsSettled)'
  BY <1>1, <1>3 DEF HalfInv, AnsweredIsSettled, Past
<1>8. (QuoteBacksOneSession /\ SessionBacked /\ ExpiredIsPast)'
  BY <1>1 DEF QuoteBacksOneSession, SessionBacked, ExpiredIsPast, Past
<1> QED  BY <1>4, <1>5, <1>6, <1>7, <1>8

\* A row enters the history only when it is completed before its time.
LEMMA InTimeMeaning == ASSUME TypeOK, NEW t \in {"request", "session"}, NEW r \in Requests
                       PROVE  /\ InTime(t, r) \in [{"request", "session"} -> SUBSET Requests]
                              /\ \A u \in {"request", "session"}, x \in Requests :
                                    x \in InTime(t, r)[u] <=>
                                       x \in inTime[u] \/ (u = t /\ x = r /\ ~Past(r))
  BY DEF InTime, TypeOK

LEMMA MarkRequestInv == ASSUME IInv, NEW r \in Requests, MarkRequest(r)
                        PROVE  IInv'
<1> USE DEF IInv
<1>1. /\ UNCHANGED <<quote, session, qlock, pc, passed, due, jobUp, paid, crashes>>
      /\ hook' = [hook EXCEPT ![r] = "half"]
      /\ r \in paid
  BY DEF MarkRequest, PaidInv
<1>2. CASE /\ request' = [request EXCEPT ![r] = "completed"]
           /\ inTime' = InTime("request", r)
           /\ UNCHANGED <<lost, faults>>
  <2>1. /\ inTime' \in [{"request", "session"} -> SUBSET Requests]
        /\ \A x \in Requests : x \in inTime'["request"] <=>
              x \in inTime["request"] \/ (x = r /\ ~Past(r))
        /\ \A x \in Requests : x \in inTime'["session"] <=> x \in inTime["session"]
    BY <1>2, InTimeMeaning
  <2>2. TypeOK'
    BY <1>1, <1>2, <2>1 DEF TypeOK
  <2>3. (CallInv /\ QuoteBacksOneSession /\ SessionBacked)'
    BY <1>1, <1>2 DEF CallInv, QuoteBacksOneSession, SessionBacked, TypeOK, Requests
  <2>4. DueInv'
    <3> SUFFICES ASSUME NEW e \in Expirers, NEW x \in due[e]
                 PROVE  /\ Past(x)
                        /\ e = "quoteJob" => x \in Quotes
                        /\ e \in SessionExpirers =>
                              x \in Calls /\ session[x] # "none" /\ x \notin inTime'["session"]
                        /\ e \in RequestExpirers =>
                              x \in Requests /\ request'[x] # "none" /\ x \notin inTime'["request"]
      BY <1>1 DEF DueInv, Past
    <3> QED  BY <1>2, <2>1 DEF DueInv, TypeOK, Requests
  <2>5. PaidInv'
    BY <1>1, <1>2, <2>1, <2>2 DEF PaidInv, TypeOK, Requests
  <2>6. HalfInv' /\ AnsweredIsSettled'
    BY <1>1, <1>2 DEF HalfInv, AnsweredIsSettled, Past, TypeOK
  <2>7. PaidInTimeIsFinal'
    BY <1>1, <1>2, <2>1, <2>2 DEF PaidInTimeIsFinal, TypeOK
  <2>8. ExpiredIsPast'
    BY <1>1, <1>2 DEF ExpiredIsPast, Past, TypeOK
  <2> QED  BY <2>2, <2>3, <2>4, <2>5, <2>6, <2>7, <2>8
<1>3. CASE /\ Fault
           /\ lost' = [lost EXCEPT ![r] = @ + 1]
           /\ UNCHANGED <<request, inTime>>
  <2>1. TypeOK'
    BY <1>1, <1>3 DEF TypeOK, Fault
  <2>2. lost'[r] # 0 /\ \A x \in Requests : x # r => lost'[x] = lost[x]
    BY <1>3 DEF TypeOK
  <2>3. (CallInv /\ QuoteBacksOneSession /\ SessionBacked /\ ExpiredIsPast)'
    BY <1>1, <1>3 DEF CallInv, QuoteBacksOneSession, SessionBacked, ExpiredIsPast, Past
  <2>4. (DueInv /\ PaidInv /\ PaidInTimeIsFinal)'
    BY <1>1, <1>3 DEF DueInv, PaidInv, PaidInTimeIsFinal, Past, TypeOK
  <2>5. HalfInv' /\ AnsweredIsSettled'
    BY <1>1, <1>3, <2>2 DEF HalfInv, AnsweredIsSettled, Past, TypeOK
  <2> QED  BY <2>1, <2>3, <2>4, <2>5
<1> QED  BY <1>2, <1>3 DEF MarkRequest

LEMMA MarkSessionInv == ASSUME IInv, NEW r \in Requests, MarkSession(r)
                        PROVE  IInv'
<1> USE DEF IInv
<1>1. /\ UNCHANGED <<quote, request, qlock, pc, passed, due, jobUp, paid, crashes>>
      /\ hook[r] = "half"
      /\ hook' = [hook EXCEPT ![r] = "answered"]
      /\ r \in paid
  BY DEF MarkSession, PaidInv
<1>2. CASE r \in Standalone /\ UNCHANGED <<session, inTime, lost, faults>>
  <2>0. r \notin Calls
    BY <1>2, DisjointAssumption
  <2>1. TypeOK'
    BY <1>1, <1>2 DEF TypeOK
  <2>2. (CallInv /\ QuoteBacksOneSession /\ SessionBacked /\ ExpiredIsPast)'
    BY <1>1, <1>2 DEF CallInv, QuoteBacksOneSession, SessionBacked, ExpiredIsPast, Past
  <2>3. (DueInv /\ PaidInv /\ PaidInTimeIsFinal)'
    BY <1>1, <1>2 DEF DueInv, PaidInv, PaidInTimeIsFinal, Past, TypeOK
  <2>4. HalfInv' /\ AnsweredIsSettled'
    BY <1>1, <1>2, <2>0 DEF HalfInv, AnsweredIsSettled, Past, TypeOK
  <2> QED  BY <2>1, <2>2, <2>3, <2>4
<1>3. CASE /\ r \in Calls
           /\ session' = [session EXCEPT ![r] = "completed"]
           /\ inTime' = InTime("session", r)
           /\ UNCHANGED <<lost, faults>>
  <2>1. /\ inTime' \in [{"request", "session"} -> SUBSET Requests]
        /\ \A x \in Requests : x \in inTime'["session"] <=>
              x \in inTime["session"] \/ (x = r /\ ~Past(r))
        /\ \A x \in Requests : x \in inTime'["request"] <=> x \in inTime["request"]
    BY <1>3, InTimeMeaning
  <2>2. TypeOK'
    BY <1>1, <1>3, <2>1 DEF TypeOK
  <2>3. session[r] # "none"
    BY <1>1, <1>3 DEF PaidInv
  <2>4. (CallInv /\ QuoteBacksOneSession /\ SessionBacked)'
    BY <1>1, <1>3, <2>3 DEF CallInv, QuoteBacksOneSession, SessionBacked, TypeOK
  <2>5. DueInv'
    <3> SUFFICES ASSUME NEW e \in Expirers, NEW x \in due[e]
                 PROVE  /\ Past(x)
                        /\ e = "quoteJob" => x \in Quotes
                        /\ e \in SessionExpirers =>
                              x \in Calls /\ session'[x] # "none" /\ x \notin inTime'["session"]
                        /\ e \in RequestExpirers =>
                              x \in Requests /\ request[x] # "none" /\ x \notin inTime'["request"]
      BY <1>1 DEF DueInv, Past
    <3> QED  BY <1>3, <2>1 DEF DueInv, TypeOK, Requests
  <2>6. PaidInv'
    BY <1>1, <1>3, <2>1, <2>2 DEF PaidInv, TypeOK, Requests
  <2>7. HalfInv' /\ AnsweredIsSettled'
    BY <1>1, <1>3 DEF HalfInv, AnsweredIsSettled, Past, TypeOK
  <2>8. PaidInTimeIsFinal'
    BY <1>1, <1>3, <2>1, <2>2 DEF PaidInTimeIsFinal, PaidInv, TypeOK
  <2>9. ExpiredIsPast'
    BY <1>1, <1>3 DEF ExpiredIsPast, Past, TypeOK
  <2> QED  BY <2>2, <2>4, <2>5, <2>6, <2>7, <2>8, <2>9
<1>4. CASE /\ r \in Calls
           /\ Fault
           /\ lost' = [lost EXCEPT ![r] = @ + 1]
           /\ UNCHANGED <<session, inTime>>
  <2>1. TypeOK'
    BY <1>1, <1>4 DEF TypeOK, Fault
  <2>2. lost'[r] # 0 /\ \A x \in Requests : x # r => lost'[x] = lost[x]
    BY <1>4 DEF TypeOK
  <2>3. (CallInv /\ QuoteBacksOneSession /\ SessionBacked /\ ExpiredIsPast)'
    BY <1>1, <1>4 DEF CallInv, QuoteBacksOneSession, SessionBacked, ExpiredIsPast, Past
  <2>4. (DueInv /\ PaidInv /\ PaidInTimeIsFinal)'
    BY <1>1, <1>4 DEF DueInv, PaidInv, PaidInTimeIsFinal, Past, TypeOK
  <2>5. HalfInv' /\ AnsweredIsSettled'
    BY <1>1, <1>4, <2>2 DEF HalfInv, AnsweredIsSettled, Past, TypeOK
  <2> QED  BY <2>1, <2>3, <2>4, <2>5
<1> QED  BY <1>2, <1>3, <1>4 DEF MarkSession

LEMMA CrashInv == ASSUME IInv, Crash
                  PROVE  IInv'
<1> USE DEF IInv
<1>1. TypeOK'
  BY DEF Crash, TypeOK
<1>2. CallInv'
  BY DEF Crash, CallInv, TypeOK
<1>3. (DueInv /\ PaidInv /\ PaidInTimeIsFinal)'
  BY DEF Crash, DueInv, PaidInv, PaidInTimeIsFinal
<1>4. HalfInv' /\ AnsweredIsSettled'
  BY DEF Crash, HalfInv, AnsweredIsSettled, Past
<1>5. (QuoteBacksOneSession /\ SessionBacked /\ ExpiredIsPast)'
  BY DEF Crash, QuoteBacksOneSession, SessionBacked, ExpiredIsPast, Past
<1> QED  BY <1>1, <1>2, <1>3, <1>4, <1>5

-----------------------------------------------------------------------------
(* The theorems *)

\* The invariant holds of every behaviour of CreateSession calls, expirers,
\* payers, notifications, stops and crashes.
THEOREM SessionInvariance == Spec => []IInv
<1>1. Init => IInv
  BY InitInv
<1>2. IInv /\ [Next]_vars => IInv'
  <2> SUFFICES ASSUME IInv, [Next]_vars PROVE IInv'
    OBVIOUS
  <2>1. ASSUME NEW c \in Calls, CallStep(c) PROVE IInv'
    BY <2>1, LoadQuoteInv, InsertRequestInv, RollBackInv, CommitSessionInv DEF CallStep
  <2>2. CASE Next
    BY <2>1, <2>2, CreateQuoteInv, CreatePaymentRequestInv, ElapseInv, ScanInv,
       ExpireInv, ForgetInv, PayInv, MarkRequestInv, MarkSessionInv, CrashInv DEF Next
  <2>3. CASE UNCHANGED vars
    <3>1. (TypeOK /\ CallInv /\ DueInv /\ PaidInv /\ HalfInv)'
      BY <2>3 DEF vars, IInv, TypeOK, CallInv, DueInv, PaidInv, HalfInv, Past
    <3>2. (QuoteBacksOneSession /\ SessionBacked /\ ExpiredIsPast)'
      BY <2>3 DEF vars, IInv, QuoteBacksOneSession, SessionBacked, ExpiredIsPast, Past
    <3>3. (PaidInTimeIsFinal /\ AnsweredIsSettled)'
      BY <2>3 DEF vars, IInv, PaidInTimeIsFinal, AnsweredIsSettled, Past
    <3> QED  BY <3>1, <3>2, <3>3 DEF IInv
  <2> QED  BY <2>2, <2>3
<1> QED  BY <1>1, <1>2, PTL DEF Spec

\* Every reachable state is well typed.
THEOREM SessionTypeCorrect == Spec => []TypeOK
<1>1. IInv => TypeOK
  BY DEF IInv
<1> QED  BY <1>1, SessionInvariance, PTL

\* However many calls race for it, a quote is consumed by at most one session.
THEOREM QuoteCorrect == Spec => []QuoteBacksOneSession
<1>1. IInv => QuoteBacksOneSession
  BY DEF IInv
<1> QED  BY <1>1, SessionInvariance, PTL

\* A session always has its request, and its quote is no longer for sale.
THEOREM BackedCorrect == Spec => []SessionBacked
<1>1. IInv => SessionBacked
  BY DEF IInv
<1> QED  BY <1>1, SessionInvariance, PTL

\* Nothing expires before its time.
THEOREM ExpiryCorrect == Spec => []ExpiredIsPast
<1>1. IInv => ExpiredIsPast
  BY DEF IInv
<1> QED  BY <1>1, SessionInvariance, PTL

\* No expirer undoes a completion that came in time.
THEOREM FinalCorrect == Spec => []PaidInTimeIsFinal
<1>1. IInv => PaidInTimeIsFinal
  BY DEF IInv
<1> QED  BY <1>1, SessionInvariance, PTL

\* An answered notification has completed the request and its session.
THEOREM SettledCorrect == Spec => []AnsweredIsSettled
<1>1. IInv => AnsweredIsSettled
  BY DEF IInv
<1> QED  BY <1>1, SessionInvariance, PTL

=============================================================================
