----------------------------- MODULE PaymentProofs -----------------------------
(***************************************************************************)
(* What the server decides about a payment, for every value of the         *)
(* constants: the recoveries of a privacy payment (PrivacyRecovery), the   *)
(* bridge, the fees and the approval of an ordinary one (PaymentPlan), and *)
(* the configuration of the routes it may take (RouteConfig). The three    *)
(* share no state: each has a part of this module to itself.               *)
(***************************************************************************)
EXTENDS PaymentPlan, PrivacyRecovery, RouteConfig, SequenceTheorems, TLAPS

-----------------------------------------------------------------------------
(* Privacy payments, for any number of failed forwards and any order and   *)
(* repetition of the webhooks: which recoveries the server hands out.      *)

Statuses == {"pending", "processing", "completed", "failed", "refunded"}
Signals == {"created", "requested", "executed", "completed", "failed", "privacy", "retry",
            "claimed", "refunded", "unmarked"}
Words == {"failed", "PRIVACY", "REFUND", "RETRY"}
Gateways == [uuid : BOOLEAN, intent : BOOLEAN, settled : BOOLEAN, done : BOOLEAN,
             retries : 0..MaxFailures, trying : BOOLEAN, held : BOOLEAN]
Messages == [type : {"PAYMENT_CREATED", "PAYMENT_EXECUTED", "PAYMENT_COMPLETED",
                     "PAYMENT_FAILED", "PAYMENT_REFUNDED"},
             status : Statuses, signal : Signals, reason : SUBSET Words]

\* What the indexer may send
SentOK == sent \subseteq Messages

\* Failures, retries and recoveries are of a forward that failed.
FailureBacked ==
    /\ \A m \in sent : m.signal \in {"failed", "retry"} \/ m.reason # {} => gw.retries > 0
    /\ failure # {} \/ events \cap {"failed", "retry"} # {} => gw.retries > 0
    /\ (\E b \in built : b.action \in {"retry", "refund"}) => gw.retries > 0

\* A reported claim or refund has emptied the escrow for good.
EscrowEmptied ==
    /\ gw.held => gw.settled
    /\ \A m \in sent : m.signal \in {"claimed", "refunded"} => gw.settled /\ ~gw.held
    /\ events \cap {"claimed", "refunded"} # {} => gw.settled /\ ~gw.held

\* A reported completion is of a forward that went through, which ends the payment.
CompletionBacked ==
    /\ gw.trying => gw.held
    /\ gw.done => gw.settled /\ ~gw.held
    /\ \A m \in sent : m.signal = "completed" => gw.done
    /\ "completed" \in events => gw.done

PrivacyInv ==
    PrivacyTypeOK /\ SentOK /\ FailureBacked /\ EscrowEmptied /\ CompletionBacked /\ StatusIsBacked

-----------------------------------------------------------------------------
\* The stage derived from the stored events: an outcome hides everything else,
\* a failure that has none is offered, and nothing else is.
LEMMA StageFacts ==
    ASSUME NEW st, NEW reason, NEW evs,
           NEW d, d = DerivePaymentPrivacyLifecycle(st, reason, evs)
    PROVE  /\ d.stage \in Stages
           /\ evs \cap {"claimed", "refunded"} # {} => d.stage = "Resolved"
           /\ d.stage = "Resolved" => evs \cap {"claimed", "refunded"} # {}
           /\ d.stage = "ForwardedFinal" => "completed" \in evs
           /\ d.stage \in Failing => "failed" \in reason \cup evs \/ "retry" \in evs
           /\ evs \cap {"claimed", "refunded"} = {} =>
                 /\ "failed" \in reason \cup evs \/ "retry" \in evs =>
                       d.privacy /\ d.stage \in Failing
                 /\ "requested" \in evs /\ "completed" \notin evs =>
                       d.privacy /\ d.stage \in Failing \cup {"SettledToStealth"}
<1>1. CASE evs \cap {"claimed", "refunded"} # {}
  <2>1. d = [privacy |-> TRUE, stage |-> "Resolved"]
    BY <1>1 DEF DerivePaymentPrivacyLifecycle
  <2> QED BY <1>1, <2>1 DEF Failing, Stages
<1>2. CASE evs \cap {"claimed", "refunded"} = {} /\ "failed" \in reason \cup evs
  <2>1. \E s \in Failing : d = [privacy |-> TRUE, stage |-> s]
    BY <1>2 DEF DerivePaymentPrivacyLifecycle, Failing
  <2> QED BY <1>2, <2>1 DEF Failing, Stages
<1>3. CASE evs \cap {"claimed", "refunded"} = {} /\ "failed" \notin reason \cup evs
           /\ "retry" \notin evs
  <2>1. CASE "completed" \in evs
    <3>1. d = [privacy |-> TRUE, stage |-> "ForwardedFinal"]
      BY <1>3, <2>1 DEF DerivePaymentPrivacyLifecycle
    <3> QED BY <1>3, <2>1, <3>1 DEF Failing, Stages
  <2>2. CASE "completed" \notin evs /\ "requested" \in evs
    <3>1. d = [privacy |-> TRUE, stage |-> "SettledToStealth"]
      BY <1>3, <2>2 DEF DerivePaymentPrivacyLifecycle
    <3> QED BY <1>3, <2>2, <3>1 DEF Failing, Stages
  <2>3. CASE "completed" \notin evs /\ "requested" \notin evs
    <3>1. \E p \in BOOLEAN, s \in {"SettledToStealth", "NotPrivacy", "Unknown",
                                   "PendingOnSource"} :
              d = [privacy |-> p, stage |-> s]
      BY <1>3, <2>3 DEF DerivePaymentPrivacyLifecycle, HasPrivacySignal
    <3> QED BY <1>3, <2>3, <3>1 DEF Failing, Stages
  <2> QED BY <2>1, <2>2, <2>3
<1>4. CASE evs \cap {"claimed", "refunded"} = {} /\ "failed" \notin reason \cup evs
           /\ "retry" \in evs
  <2>1. d = [privacy |-> TRUE, stage |-> "ForwardFailedRetrying"]
    BY <1>4 DEF DerivePaymentPrivacyLifecycle
  <2> QED BY <1>4, <2>1 DEF Failing, Stages
<1> QED BY <1>1, <1>2, <1>3, <1>4

\* A retry or a refund needs a failing stage, and no recovery a resolved one.
LEMMA RecoveryNeedsFailure ==
    ASSUME NEW stage, NEW action \in Actions, ValidatePrivacyRecoveryStage(stage, action)
    PROVE  /\ stage # "Resolved"
           /\ action \in {"retry", "refund"} => stage \in Failing
  BY DEF ValidatePrivacyRecoveryStage, Actions, Failing

-----------------------------------------------------------------------------
LEMMA PrivacyInitInv == PrivacyInit => PrivacyInv
<1> SUFFICES ASSUME PrivacyInit PROVE PrivacyInv
  OBVIOUS
<1>1. gw \in [uuid : BOOLEAN, intent : BOOLEAN, settled : {FALSE}, done : {FALSE},
              retries : {0}, trying : {FALSE}, held : {FALSE}]
  BY DEF PrivacyInit
<1>2. /\ status = "pending" /\ failure = {} /\ events = {} /\ built = {} /\ shown = "none"
      /\ \E s \in {"created", "unmarked"} : sent = {Message("PAYMENT_CREATED", "pending", s, {})}
  BY DEF PrivacyInit
<1>n. 0 \in 0..MaxFailures
  BY FailuresBound
<1>3. PrivacyTypeOK
  BY <1>1, <1>2, <1>n DEF PrivacyTypeOK
<1>4. SentOK /\ \A m \in sent : m.signal \in {"created", "unmarked"} /\ m.reason = {}
  BY <1>2 DEF SentOK, Messages, Message, Statuses, Signals, Words
<1>5. FailureBacked /\ EscrowEmptied /\ CompletionBacked
  BY <1>1, <1>2, <1>4 DEF FailureBacked, EscrowEmptied, CompletionBacked
<1>6. StatusIsBacked
  BY <1>2 DEF StatusIsBacked, Failing
<1> QED BY <1>3, <1>4, <1>5, <1>6 DEF PrivacyInv

\* A report that is a message, backed by a failure, a completed forward and an
\* empty escrow if it says so, while the gateway only fails more and completes and
\* releases for good.
LEMMA ReportInv ==
    ASSUME PrivacyInv, UNCHANGED server, NEW m \in Messages, Report(m), gw' \in Gateways,
           gw.retries > 0 => gw'.retries > 0,
           gw'.held => gw'.settled,
           gw.settled => gw'.settled,
           gw.settled /\ ~gw.held => ~gw'.held,
           gw.done => gw'.done,
           gw'.trying => gw'.held,
           gw'.done => gw'.settled /\ ~gw'.held,
           m.signal \in {"failed", "retry"} \/ m.reason # {} => gw'.retries > 0,
           m.signal \in {"claimed", "refunded"} => gw'.settled /\ ~gw'.held,
           m.signal = "completed" => gw'.done
    PROVE  PrivacyInv'
<1> USE DEF PrivacyInv, server
<1>1. sent' = sent \cup {m}
  BY DEF Report
<1>2. PrivacyTypeOK'
  BY DEF PrivacyTypeOK, Gateways
<1>3. SentOK'
  BY <1>1 DEF SentOK
<1>4. FailureBacked'
  BY <1>1 DEF FailureBacked
<1>5. EscrowEmptied'
  BY <1>1 DEF EscrowEmptied
<1>6. CompletionBacked'
  BY <1>1 DEF CompletionBacked
<1>7. StatusIsBacked'
  BY DEF StatusIsBacked
<1> QED BY <1>2, <1>3, <1>4, <1>5, <1>6, <1>7

LEMMA GatewayInv ==
    ASSUME PrivacyInv,
           \/ GatewaySettles \/ GatewayForwards \/ GatewayFailsToForward \/ GatewayRetries
           \/ \E a \in {"claim", "refund"} : GatewayReleases(a)
    PROVE  PrivacyInv'
<1>t. gw \in Gateways
  BY DEF PrivacyInv, PrivacyTypeOK, Gateways
<1>h. /\ gw.held => gw.settled
      /\ gw.trying => gw.held
      /\ gw.done => gw.settled /\ ~gw.held
  BY DEF PrivacyInv, EscrowEmptied, CompletionBacked
<1>n. MaxFailures \in Nat
  BY FailuresBound
<1>1. CASE GatewaySettles
  <2>1. PICK s \in {"requested", "unmarked"} :
           Report(Message("PAYMENT_EXECUTED", "processing", s, {}))
    BY <1>1 DEF GatewaySettles
  <2> DEFINE m == Message("PAYMENT_EXECUTED", "processing", s, {})
  <2>2. m \in Messages /\ m.signal = s /\ m.reason = {}
    BY DEF Message, Messages, Statuses, Signals
  <2>3. /\ gw' \in Gateways /\ gw'.settled /\ gw'.done = gw.done /\ gw'.retries = gw.retries
        /\ gw'.held = gw.intent /\ gw'.trying = gw.intent /\ ~gw.settled /\ UNCHANGED server
    BY <1>1, <1>t DEF GatewaySettles, Gateways
  <2> HIDE DEF m
  <2> QED BY <1>h, <2>1, <2>2, <2>3, ReportInv DEF m
<1>2. CASE GatewayForwards
  <2> DEFINE m == Message("PAYMENT_COMPLETED", "completed", "completed", {})
  <2>2. m \in Messages /\ m.signal = "completed" /\ m.reason = {} /\ Report(m)
    BY <1>2 DEF GatewayForwards, Message, Messages, Statuses, Signals
  <2>3. /\ gw' \in Gateways /\ gw'.settled = gw.settled /\ gw'.done /\ gw'.retries = gw.retries
        /\ ~gw'.held /\ ~gw'.trying /\ gw.trying /\ UNCHANGED server
    BY <1>2, <1>t DEF GatewayForwards, Gateways
  <2> HIDE DEF m
  <2> QED BY <1>h, <2>2, <2>3, ReportInv
<1>3. CASE GatewayFailsToForward
  <2>1. PICK f \in Failures : Report(Message("PAYMENT_FAILED", f.status, f.signal, f.reason))
    BY <1>3 DEF GatewayFailsToForward
  <2>2. /\ gw' = [gw EXCEPT !.retries = @ + 1, !.trying = FALSE]
        /\ gw.retries < MaxFailures /\ UNCHANGED server
    BY <1>3 DEF GatewayFailsToForward
  <2> DEFINE m == Message("PAYMENT_FAILED", f.status, f.signal, f.reason)
  <2>3. /\ f.status \in Statuses /\ f.signal \in {"failed", "privacy", "unmarked"}
        /\ f.reason \in SUBSET Words
    BY FailuresAssumption DEF Statuses, Words
  <2>4. m \in Messages /\ m.signal \in {"failed", "privacy", "unmarked"}
    BY <2>3 DEF Message, Messages, Statuses, Signals
  <2>6. gw.retries \in Nat /\ gw.retries + 1 \in 0..MaxFailures /\ gw.retries + 1 > 0
    BY <1>t, <1>n, <2>2 DEF Gateways
  <2>7. gw' \in Gateways
    BY <1>t, <2>2, <2>6 DEF Gateways
  <2>8. /\ gw'.retries = gw.retries + 1 /\ gw'.settled = gw.settled /\ gw'.held = gw.held
        /\ gw'.done = gw.done /\ ~gw'.trying
    BY <1>t, <2>2 DEF Gateways
  <2>9. Report(m)
    BY <2>1
  <2>10. UNCHANGED server
    BY <2>2
  <2> HIDE DEF m
  <2> QED BY <1>h, <2>4, <2>6, <2>7, <2>8, <2>9, <2>10, ReportInv
<1>4. CASE GatewayRetries
  <2> DEFINE m == Message("PAYMENT_EXECUTED", "processing", "retry", {})
  <2>2. m \in Messages /\ m.signal = "retry" /\ m.reason = {} /\ Report(m)
    BY <1>4 DEF GatewayRetries, Message, Messages, Statuses, Signals
  <2>3. /\ gw' \in Gateways /\ gw'.settled = gw.settled /\ gw'.done = gw.done
        /\ gw'.retries = gw.retries /\ gw.retries > 0
        /\ gw'.held = gw.held /\ gw.held /\ UNCHANGED server
    BY <1>4, <1>t DEF GatewayRetries, Gateways
  <2> HIDE DEF m
  <2> QED BY <1>h, <2>2, <2>3, ReportInv
<1>5. ASSUME NEW a \in {"claim", "refund"}, GatewayReleases(a) PROVE PrivacyInv'
  <2> DEFINE m == IF a = "claim" THEN Message("PAYMENT_COMPLETED", "completed", "claimed", {})
                  ELSE Message("PAYMENT_REFUNDED", "refunded", "refunded", {})
  <2>2. m \in Messages /\ m.signal \in {"claimed", "refunded"} /\ m.reason = {}
    BY DEF Message, Messages, Statuses, Signals
  <2>1. Report(m)
    BY <1>5 DEF GatewayReleases
  <2>3. /\ gw' \in Gateways /\ gw'.settled = gw.settled /\ gw'.done = gw.done
        /\ gw'.retries = gw.retries /\ ~gw'.held /\ gw'.trying = gw.trying
        /\ gw.held /\ ~gw.trying /\ UNCHANGED server
    BY <1>5, <1>t DEF GatewayReleases, Gateways
  <2> HIDE DEF m
  <2> QED BY <1>h, <2>1, <2>2, <2>3, ReportInv
<1> QED BY <1>1, <1>2, <1>3, <1>4, <1>5

LEMMA WebhookInv ==
    ASSUME PrivacyInv, NEW m \in sent, ProcessIndexerWebhook(m)
    PROVE  PrivacyInv'
<1> USE DEF PrivacyInv
<1>1. m \in Messages
  BY DEF SentOK
<1>2. /\ UNCHANGED <<gw, sent, built, shown>>
      /\ status' \in {m.status, "failed"}
      /\ failure' \in {m.reason, failure}
      /\ events' \subseteq events \cup {m.signal, "executed"}
  BY DEF ProcessIndexerWebhook
<1>3. PrivacyTypeOK' /\ SentOK'
  BY <1>1, <1>2 DEF PrivacyTypeOK, SentOK, Messages, Statuses, Signals, Words
<1>4. FailureBacked'
  BY <1>2 DEF FailureBacked
<1>5. EscrowEmptied'
  BY <1>2 DEF EscrowEmptied
<1>6. CompletionBacked'
  BY <1>2 DEF CompletionBacked
<1>7. StatusIsBacked'
  BY <1>2 DEF StatusIsBacked
<1> QED BY <1>3, <1>4, <1>5, <1>6, <1>7

LEMMA StatusInv ==
    ASSUME PrivacyInv, NEW b \in BOOLEAN, GetPaymentPrivacyStatus(b)
    PROVE  PrivacyInv'
<1> USE DEF PrivacyInv
<1> DEFINE g == FetchGatewayPrivacyState(gw)
<1>1. UNCHANGED <<gw, sent, status, failure, events, built>>
  BY DEF GetPaymentPrivacyStatus
<1>2. shown' \in {DeriveGatewayPrivacyLifecycle(status, failure, g, Derived), Derived.stage}
  BY DEF GetPaymentPrivacyStatus
<1>3. /\ g.done \in BOOLEAN /\ g.settled \in BOOLEAN /\ g.retries \in Nat
      /\ g.done => gw.done
      /\ g.retries > 0 => gw.retries > 0
  <2>1. gw \in Gateways
    BY DEF PrivacyTypeOK, Gateways
  <2>2. CASE gw.uuid
    <3>1. g.done = gw.done /\ g.settled = gw.settled /\ g.retries = gw.retries
      BY <2>2 DEF FetchGatewayPrivacyState, Nothing
    <3>2. gw.retries \in Nat /\ gw.done \in BOOLEAN /\ gw.settled \in BOOLEAN
      BY <2>1, FailuresBound DEF Gateways
    <3> HIDE DEF g
    <3> QED BY <3>1, <3>2
  <2>3. CASE ~gw.uuid
    BY <2>3 DEF FetchGatewayPrivacyState, Nothing
  <2> QED BY <2>2, <2>3
<1> HIDE DEF g
<1>4. CASE shown' = DeriveGatewayPrivacyLifecycle(status, failure, g, Derived)
  <2>1. CASE g.done
    <3>1. shown' = "ForwardedFinal"
      BY <1>4, <2>1 DEF DeriveGatewayPrivacyLifecycle
    <3>2. StatusIsBacked' /\ shown' \in Stages
      BY <1>1, <1>3, <2>1, <3>1 DEF StatusIsBacked, Failing, Stages
    <3> QED BY <1>1, <3>2 DEF PrivacyTypeOK, SentOK, FailureBacked, EscrowEmptied, CompletionBacked
  <2>2. CASE ~g.done /\ g.retries > 0
    <3>1. shown' \in Failing
      BY <1>4, <2>2 DEF DeriveGatewayPrivacyLifecycle, Failing
    <3>2. StatusIsBacked' /\ shown' \in Stages
      BY <1>1, <1>3, <2>2, <3>1 DEF StatusIsBacked, Failing, Stages
    <3> QED BY <1>1, <3>2 DEF PrivacyTypeOK, SentOK, FailureBacked, EscrowEmptied, CompletionBacked
  <2>3. CASE ~g.done /\ g.retries = 0
    <3>1. shown' \in {"SettledToStealth", "PendingOnSource"}
      BY <1>4, <2>3 DEF DeriveGatewayPrivacyLifecycle
    <3>2. StatusIsBacked' /\ shown' \in Stages
      BY <3>1 DEF StatusIsBacked, Failing, Stages
    <3> QED BY <1>1, <3>2 DEF PrivacyTypeOK, SentOK, FailureBacked, EscrowEmptied, CompletionBacked
  <2> QED BY <1>3, <2>1, <2>2, <2>3
<1>5. CASE shown' = Derived.stage
  <2>1. /\ shown' \in Stages
        /\ shown' = "Resolved" => events \cap {"claimed", "refunded"} # {}
        /\ shown' = "ForwardedFinal" => "completed" \in events
        /\ shown' \in Failing => "failed" \in failure \cup events \/ "retry" \in events
    BY <1>5, StageFacts DEF Derived
  <2>2. StatusIsBacked'
    BY <1>1, <2>1 DEF StatusIsBacked, FailureBacked, EscrowEmptied, CompletionBacked
  <2> QED BY <1>1, <2>1, <2>2 DEF PrivacyTypeOK, SentOK, FailureBacked, EscrowEmptied, CompletionBacked
<1> QED BY <1>2, <1>4, <1>5

LEMMA BuildInv ==
    ASSUME PrivacyInv, NEW a \in Actions, NEW b \in BOOLEAN, BuildPrivacyRecoveryTx(a, b)
    PROVE  PrivacyInv'
<1> USE DEF PrivacyInv
<1>1. /\ UNCHANGED <<gw, sent, status, failure, events, shown>>
      /\ ValidatePrivacyRecoveryStage(Derived.stage, a)
  BY DEF BuildPrivacyRecoveryTx, Offered
<1>2. PICK id \in {"own", "other"} : built' = built \cup {[action |-> a, id |-> id]}
  BY DEF BuildPrivacyRecoveryTx, ResolveOnchainPaymentID
<1>3. a \in {"retry", "refund"} => gw.retries > 0
  <2>1. a \in {"retry", "refund"} => "failed" \in failure \cup events \/ "retry" \in events
    BY <1>1, RecoveryNeedsFailure, StageFacts DEF Derived
  <2> QED BY <2>1 DEF FailureBacked
<1>4. FailureBacked'
  BY <1>1, <1>2, <1>3 DEF FailureBacked
<1>5. PrivacyTypeOK'
  BY <1>1, <1>2 DEF PrivacyTypeOK
<1>6. (SentOK /\ EscrowEmptied /\ CompletionBacked /\ StatusIsBacked)'
  BY <1>1 DEF SentOK, EscrowEmptied, CompletionBacked, StatusIsBacked
<1> QED BY <1>4, <1>5, <1>6

LEMMA PrivacyStepInv == PrivacyInv /\ [PrivacyNext]_privacyVars => PrivacyInv'
<1> SUFFICES ASSUME PrivacyInv, [PrivacyNext]_privacyVars PROVE PrivacyInv'
  OBVIOUS
<1>1. CASE UNCHANGED privacyVars
  BY <1>1 DEF privacyVars, PrivacyInv, PrivacyTypeOK, SentOK, FailureBacked, EscrowEmptied,
             CompletionBacked, StatusIsBacked
<1> QED BY <1>1, GatewayInv, WebhookInv, StatusInv, BuildInv DEF PrivacyNext

-----------------------------------------------------------------------------
\* The inductive invariant holds in every reachable state.
THEOREM PrivacyInvariance == PrivacySpec => []PrivacyInv
  BY PrivacyInitInv, PrivacyStepInv, PTL DEF PrivacySpec

\* buildPrivacyRecoveryTx hands out a retry or a refund only for a payment whose
\* forward failed on the gateway, although it never asks the gateway.
THEOREM BackedCorrect == PrivacySpec => []RecoveryIsBacked
<1>1. PrivacyInv => RecoveryIsBacked
  BY DEF PrivacyInv, FailureBacked, RecoveryIsBacked
<1> QED BY <1>1, PrivacyInvariance, PTL

\* privacy-status never runs ahead of the gateway, wherever its answer is from.
THEOREM StatusCorrect == PrivacySpec => []StatusIsBacked
<1>1. PrivacyInv => StatusIsBacked
  BY DEF PrivacyInv
<1> QED BY <1>1, PrivacyInvariance, PTL

\* A stored failure, retry or forward request leaves a way to the escrowed funds
\* for as long as there are any.
THEOREM FundsCorrect == PrivacySpec => []FundsNeverStranded
<1>1. PrivacyInv => FundsNeverStranded
  <2> DEFINE marked == "failed" \in failure \cup events \/ "retry" \in events
  <2> SUFFICES ASSUME PrivacyInv, gw.held
               PROVE  /\ marked => Offered("retry")
                      /\ marked \/ "requested" \in events => Offered("claim") \/ Offered("refund")
    BY DEF FundsNeverStranded
  <2>1. events \cap {"claimed", "refunded"} = {} /\ "completed" \notin events
    BY DEF PrivacyInv, EscrowEmptied, CompletionBacked
  <2>2. /\ marked => Derived.privacy /\ Derived.stage \in Failing
        /\ "requested" \in events => Derived.privacy
                                     /\ Derived.stage \in Failing \cup {"SettledToStealth"}
    BY <2>1, StageFacts DEF Derived
  <2> HIDE DEF marked
  <2> QED BY <2>2 DEF Offered, ValidatePrivacyRecoveryStage, Failing
<1> QED BY <1>1, PrivacyInvariance, PTL

\* After a reported claim or refund no step hands out another recovery.
THEOREM ResolvedCorrect == PrivacySpec => NoOfferAfterResolved
<1>1. ASSUME [PrivacyNext]_privacyVars, events \cap {"claimed", "refunded"} # {} PROVE built' = built
  <2>1. Derived.stage = "Resolved"
    BY <1>1, StageFacts DEF Derived
  <2>2. \A a \in Actions, b \in BOOLEAN : ~BuildPrivacyRecoveryTx(a, b)
    BY <2>1, RecoveryNeedsFailure DEF BuildPrivacyRecoveryTx, Offered
  <2> QED BY <1>1, <2>2 DEF PrivacyNext, privacyVars, server, GatewaySettles, GatewayForwards,
             GatewayFailsToForward, GatewayRetries, GatewayReleases, ProcessIndexerWebhook,
             GetPaymentPrivacyStatus
<1>2. [PrivacyNext]_privacyVars => [events \cap {"claimed", "refunded"} # {} => built' = built]_privacyVars
  BY <1>1
<1> QED BY <1>2, PTL DEF PrivacySpec, NoOfferAfterResolved

-----------------------------------------------------------------------------
(* The route's policy, for any number of payments and administrators *)

\* The ids of policies: the one there is, those read for an update, the deleted
IdsInv ==
    /\ nextId \in Nat \ {0}
    /\ policy # NoPolicy => policy.id \in Nat \ {0} /\ policy.id < nextId
    /\ DOMAIN edit = Admins
    /\ \A a \in Admins : edit[a] # NoPolicy => edit[a].id \in Nat \ {0}
    /\ \A id \in deleted : id \in Nat /\ id < nextId

PolicyInv == IdsInv /\ AdminPolicyWins /\ DeletedStaysDeleted

LEMMA RowIds == /\ \A id : BootstrapPolicy(id).id = id
                /\ \A p, id : PolicyRow(p, id).id = id
                /\ NoPolicy.id = 0
  BY DEF BootstrapPolicy, PolicyRow, NoPolicy

\* Requests write the table only where there is no row, administrators as they
\* decide, and an update only over the row that was read.
LEMMA PolicyStep == PolicyInv /\ [Next]_vars => PolicyInv'
<1> SUFFICES ASSUME PolicyInv, [Next]_vars PROVE PolicyInv'
  OBVIOUS
<1> USE DEF PolicyInv, IdsInv, AdminPolicyWins, DeletedStaysDeleted
<1>1. ASSUME UNCHANGED <<policy, nextId, decided, deleted, edit>> PROVE PolicyInv'
  <2>1. BootstrapPolicy(policy.id)' = BootstrapPolicy(policy.id)
    BY <1>1 DEF BootstrapPolicy
  <2> QED BY <1>1, <2>1
<1>2. ASSUME NEW r \in Requests, CreatePayment(r) PROVE PolicyInv'
  <2>1. CASE BootstrapDefaultRoutePolicy(r)
    <3>1. CASE policy = NoPolicy
      <4>1. /\ policy' = BootstrapPolicy(nextId) /\ nextId' = nextId + 1
            /\ UNCHANGED <<edit, decided, deleted>>
        BY <2>1, <3>1 DEF BootstrapDefaultRoutePolicy
      <4>2. policy'.id = nextId /\ decided = NoPolicy
        BY <3>1, <4>1, RowIds
      <4>3. policy' = BootstrapPolicy(policy'.id)
        BY <4>1, <4>2
      <4>4. BootstrapPolicy(policy.id)' = BootstrapPolicy(policy'.id)
        BY DEF BootstrapPolicy
      <4>5. AdminPolicyWins'
        BY <4>1, <4>2, <4>3, <4>4
      <4>6. DeletedStaysDeleted' /\ IdsInv'
        BY <4>1, <4>2
      <4> QED BY <4>5, <4>6
    <3>2. CASE policy # NoPolicy
      BY <2>1, <3>2, <1>1 DEF BootstrapDefaultRoutePolicy
    <3> QED BY <3>1, <3>2
  <2>2. CASE ~BootstrapDefaultRoutePolicy(r)
    <3>1. UNCHANGED <<policy, nextId, decided, deleted, edit>>
      BY <1>2, <2>2 DEF CreatePayment, tables, Start, ReadFeeConfig, ResolveBridgeOrder,
                        OrderFromDecision, ReadGateway, TryBridge, SavePayment, SaveFails,
                        PreviewApproval, BridgeValue, BuildTransactions
    <3> QED BY <3>1, <1>1
  <2> QED BY <2>1, <2>2
<1>3. ASSUME NEW p, CreateRoutePolicy(p) PROVE PolicyInv'
  <2>1. /\ policy' = PolicyRow(p, nextId) /\ decided' = policy' /\ nextId' = nextId + 1
        /\ UNCHANGED <<edit, deleted>>
    BY <1>3 DEF CreateRoutePolicy
  <2>2. policy'.id = nextId
    BY <2>1, RowIds
  <2> QED BY <2>1, <2>2
<1>4. ASSUME NEW a \in Admins, ReadRoutePolicy(a) PROVE PolicyInv'
  <2>1. /\ policy # NoPolicy /\ edit' = [edit EXCEPT ![a] = policy]
        /\ UNCHANGED <<policy, nextId, decided, deleted>>
    BY <1>4 DEF ReadRoutePolicy
  <2>2. BootstrapPolicy(policy.id)' = BootstrapPolicy(policy.id)
    BY <2>1 DEF BootstrapPolicy
  <2> QED BY <2>1, <2>2
<1>5. ASSUME NEW a \in Admins, NEW p, UpdateRoutePolicy(a, p) PROVE PolicyInv'
  <2>1. /\ edit[a] # NoPolicy /\ edit' = [edit EXCEPT ![a] = NoPolicy]
        /\ UNCHANGED <<nextId, deleted>>
    BY <1>5 DEF UpdateRoutePolicy
  <2>2. CASE ValidPolicy(p) /\ edit[a].id = policy.id
    <3>1. policy' = PolicyRow(p, edit[a].id) /\ decided' = policy'
      BY <1>5, <2>2 DEF UpdateRoutePolicy
    <3>2. policy # NoPolicy /\ policy'.id = policy.id
      BY <2>1, <2>2, <3>1, RowIds
    <3> QED BY <2>1, <3>1, <3>2
  <2>3. CASE ~(ValidPolicy(p) /\ edit[a].id = policy.id)
    <3>1. UNCHANGED <<policy, decided>>
      BY <1>5, <2>3 DEF UpdateRoutePolicy
    <3>2. BootstrapPolicy(policy.id)' = BootstrapPolicy(policy.id)
      BY <3>1 DEF BootstrapPolicy
    <3> QED BY <2>1, <3>1, <3>2
  <2> QED BY <2>2, <2>3
<1>6. CASE DeleteRoutePolicy
  <2>1. /\ policy # NoPolicy /\ deleted' = deleted \cup {policy.id}
        /\ policy' = NoPolicy /\ decided' = NoPolicy /\ UNCHANGED <<edit, nextId>>
    BY <1>6 DEF DeleteRoutePolicy
  <2> QED BY <2>1
<1>7. ASSUME NEW k, NEW n, \/ CreateBridgeConfig(n) \/ UpdateBridgeConfig(k, n)
                           \/ DeleteBridgeConfig(k) \/ CreateFeeConfig(n)
                           \/ UpdateFeeConfig(k, n) \/ DeleteFeeConfig(k)
      PROVE  PolicyInv'
  BY <1>1, <1>7 DEF CreateBridgeConfig, UpdateBridgeConfig, DeleteBridgeConfig, CreateFeeConfig,
                    UpdateFeeConfig, DeleteFeeConfig
<1>8. ASSUME NEW c, ChainChanges(c) PROVE PolicyInv'
  BY <1>1, <1>8 DEF ChainChanges, tables
<1>9. CASE UNCHANGED vars
  BY <1>1, <1>9 DEF vars
<1> QED BY <1>2, <1>3, <1>4, <1>5, <1>6, <1>7, <1>8, <1>9 DEF Next, Administer

LEMMA PolicyInvariance == Spec => []PolicyInv
<1>1. Init => PolicyInv
  BY DEF Init, PolicyInv, IdsInv, AdminPolicyWins, DeletedStaysDeleted
<1> QED BY <1>1, PolicyStep, PTL DEF Spec

\* A quote never changes what an administrator decided for the route: its
\* bootstrap stands only while no administrator has a policy.
THEOREM AdminCorrect == Spec => []AdminPolicyWins
<1>1. PolicyInv => AdminPolicyWins
  BY DEF PolicyInv
<1> QED BY <1>1, PolicyInvariance, PTL

\* An update that raced a delete never brings the deleted policy back.
THEOREM DeletedCorrect == Spec => []DeletedStaysDeleted
<1>1. PolicyInv => DeletedStaysDeleted
  BY DEF PolicyInv
<1> QED BY <1>1, PolicyInvariance, PTL

-----------------------------------------------------------------------------
(* A payment's fees and its approval *)

\* The tables a request reads, and the chain
TablesInv ==
    /\ chain \in Chains
    /\ fees \in Seq(FeeRows)
    /\ policy # NoPolicy => policy.default \in BridgeTypes /\ policy.order \in Seq(BridgeTypes)

LEMMA BridgeNameType == \A n : BridgeNameToType(n) \in BridgeTypes
  BY DEF BridgeNameToType, BridgeTypes, Hyperbridge

LEMMA RemoveType == ASSUME NEW S, NEW t \in Seq(S), NEW k \in DOMAIN t PROVE Remove(t, k) \in Seq(S)
  BY DEF Remove

LEMMA OrderType == ASSUME NEW p, p.default \in BridgeTypes, p.order \in Seq(BridgeTypes)
                   PROVE  BuildBridgeOrderFromPolicy(p) \in Seq(BridgeTypes) \ {<<>>}
<1> DEFINE again == {k \in DOMAIN p.order : p.order[k] = p.default}
           rest == IF again = {} THEN p.order ELSE Remove(p.order, CHOOSE k \in again : TRUE)
           tail == IF p.mode = "auto_fallback" THEN rest ELSE <<>>
<1>1. again # {} => (CHOOSE k \in again : TRUE) \in DOMAIN p.order
  OBVIOUS
<1>2. rest \in Seq(BridgeTypes)
  BY <1>1, RemoveType
<1>3. tail \in Seq(BridgeTypes)
  BY <1>2
<1>4. BuildBridgeOrderFromPolicy(p) = <<p.default>> \o tail
  BY DEF BuildBridgeOrderFromPolicy
<1> HIDE DEF tail
<1> QED BY <1>3, <1>4

\* The row the handlers store names bridges only.
LEMMA PolicyRowType == ASSUME NEW p \in PolicyInputs, ValidPolicy(p), NEW id
                       PROVE  /\ PolicyRow(p, id).default \in BridgeTypes
                              /\ PolicyRow(p, id).order \in Seq(BridgeTypes)
<1>1. p.order \in Seq(Nat) /\ p.default \in BridgeTypes
      /\ p \in [default : Nat, mode : STRING, order : Seq(Nat)]
  BY PolicyInputsAssumption DEF ValidPolicy
<1>2. p.order \in Seq(BridgeTypes)
  BY <1>1 DEF ValidPolicy
<1>3. WithOrder(p).order = IF p.order = <<>> THEN <<p.default>> ELSE p.order
  BY <1>1 DEF WithOrder
<1>4. WithOrder(p).order \in Seq(BridgeTypes)
  BY <1>1, <1>2, <1>3
<1> QED BY <1>1, <1>4 DEF PolicyRow

LEMMA TablesStep == TablesInv /\ [Next]_vars => TablesInv'
<1> SUFFICES ASSUME TablesInv, [Next]_vars PROVE TablesInv'
  OBVIOUS
<1> USE DEF TablesInv
<1>1. ASSUME UNCHANGED <<policy, fees, chain>> PROVE TablesInv'
  BY <1>1
<1>2. ASSUME NEW r \in Requests, CreatePayment(r) PROVE TablesInv'
  <2>1. CASE BootstrapDefaultRoutePolicy(r)
    <3>1. BootstrapPolicy(nextId).default \in BridgeTypes
      BY BridgeNameType DEF BootstrapPolicy
    <3>2. BootstrapPolicy(nextId).order \in Seq(BridgeTypes)
      BY BridgeNameType DEF BootstrapPolicy
    <3> QED BY <2>1, <3>1, <3>2 DEF BootstrapDefaultRoutePolicy
  <2>2. CASE ~BootstrapDefaultRoutePolicy(r)
    <3>1. UNCHANGED <<policy, fees, chain>>
      BY <1>2, <2>2 DEF CreatePayment, tables, Start, ReadFeeConfig, ResolveBridgeOrder,
                        OrderFromDecision, ReadGateway, TryBridge, SavePayment, SaveFails,
                        PreviewApproval, BridgeValue, BuildTransactions
    <3> QED BY <3>1, <1>1
  <2> QED BY <2>1, <2>2
<1>3. ASSUME NEW p \in PolicyInputs, CreateRoutePolicy(p) PROVE TablesInv'
  BY <1>3, PolicyRowType DEF CreateRoutePolicy
<1>4. ASSUME NEW a \in Admins, ReadRoutePolicy(a) PROVE TablesInv'
  BY <1>1, <1>4 DEF ReadRoutePolicy
<1>5. ASSUME NEW a \in Admins, NEW p \in PolicyInputs, UpdateRoutePolicy(a, p) PROVE TablesInv'
  BY <1>5, PolicyRowType DEF UpdateRoutePolicy
<1>6. CASE DeleteRoutePolicy
  BY <1>6 DEF DeleteRoutePolicy
<1>7. ASSUME NEW k, NEW n, \/ CreateBridgeConfig(n) \/ UpdateBridgeConfig(k, n)
                           \/ DeleteBridgeConfig(k)
      PROVE  TablesInv'
  BY <1>1, <1>7 DEF CreateBridgeConfig, UpdateBridgeConfig, DeleteBridgeConfig
<1>8. ASSUME NEW f \in FeeRows, CreateFeeConfig(f) PROVE TablesInv'
  BY <1>8 DEF CreateFeeConfig
<1>9. ASSUME NEW k \in DOMAIN fees, NEW f \in FeeRows, UpdateFeeConfig(k, f) PROVE TablesInv'
  <2>1. Remove(fees, k) \in Seq(FeeRows)
    BY RemoveType
  <2> QED BY <1>9, <2>1 DEF UpdateFeeConfig
<1>10. ASSUME NEW k \in DOMAIN fees, DeleteFeeConfig(k) PROVE TablesInv'
  <2>1. Remove(fees, k) \in Seq(FeeRows)
    BY RemoveType
  <2> QED BY <1>10, <2>1 DEF DeleteFeeConfig
<1>11. ASSUME NEW c \in Chains, ChainChanges(c) PROVE TablesInv'
  BY <1>11 DEF ChainChanges, tables
<1>12. CASE UNCHANGED vars
  BY <1>1, <1>12 DEF vars
<1> QED BY <1>2, <1>3, <1>4, <1>5, <1>6, <1>7, <1>8, <1>9, <1>10, <1>11, <1>12
        DEF Next, Administer

PlanFields == {"pc", "in", "contract", "bridge", "fees", "order", "gw", "snap", "fee", "by",
               "back", "quoted", "charge", "row", "previewed", "value", "source", "approval", "txs"}

\* The fees of a saved row add up.
Balanced(q) ==
    /\ q.row.charged = q.row.amount + q.charge.total
    /\ Magnitude(q.charge.platform + q.charge.bridge - q.charge.total) <= 1 + Lost(q)
    /\ ~q.in.swap => Magnitude(q.row.dest + q.row.fee - q.row.amount) <= 1 + Lost(q)

\* A request under way: what it has read, the row it has saved, that the row's
\* fees add up and that an approval
\* without a preview covers what the row charges.
RequestOK(q) ==
    /\ DOMAIN q = PlanFields
    /\ q.in \in Inputs
    /\ q.fees \in FeeRows \cup {DefaultFees}
    /\ q.fee \in Nat
    /\ q.back \in {"save", "margin"}
    /\ q.pc \in {"gateway", "try"} => q.order \in Seq(BridgeTypes) /\ q.order # <<>>
    /\ q.row.amount # None => q.row.amount \in Nat /\ q.row.charged \in Int
    /\ q.pc \in {"build", "margin", "approve"} \/ q.back = "margin" => q.row.amount # None
    /\ q.pc = "fees" => q.row.amount = None
    /\ q.pc # "done" => q.approval = 0
    /\ q.approval > 0 /\ q.previewed = 0 => q.approval >= q.row.charged
    /\ q.row.amount # None => Balanced(q)

RequestsInv ==
    /\ DOMAIN req = Requests
    /\ \A r \in Requests : req[r].pc = "idle" \/ RequestOK(req[r])

\* A platform fee and an amount are whole numbers of parts and units.
LEMMA PlatformFeeType == ASSUME NEW f \in FeeRows \cup {DefaultFees}, NEW amount \in Nat
                         PROVE  PlatformFeeParts(f, amount) \in Int
<1>1. f.cap \in Int /\ f.bps \in Int /\ f.min \in Int /\ f.max \in Int
  BY FeeRowsAssumption DEF DefaultFees, None
<1>2. amount * f.bps \in Int
  BY <1>1
<1> QED BY <1>1, <1>2 DEF PlatformFeeParts, Smaller, Larger, Bps

\* What float64 is off by is a number of parts, and formatAmount answers a whole
\* number that is no further from the exact one than half a unit and that.
LEMMA BlurType == ASSUME NEW parts \in Int PROVE Blur(parts) \in Nat
<1>1. Magnitude(parts) \in Nat
  BY DEF Magnitude
<1>2. \A m \in Nat, k \in Nat \ {0} : m \div k \in Nat
  OBVIOUS
<1> QED BY <1>1, <1>2, PlanBounds DEF Blur

LEMMA FormatAmountNear ==
    ASSUME NEW parts \in Int, NEW blur \in Nat, NEW n \in FormatAmount(parts, blur)
    PROVE  /\ n \in Int
           /\ n * Bps - parts <= Bps \div 2 + blur
           /\ parts - n * Bps <= Bps \div 2 + blur
<1> DEFINE reach == Bps \div 2 + blur
<1>1. reach \in Nat
  BY DEF Bps
<1>2. /\ n \in Int
      /\ -((reach - parts) \div Bps) <= n /\ n <= (parts + reach) \div Bps
  BY <1>1 DEF FormatAmount, Bps
<1> HIDE DEF reach
<1>3. \A x \in Int : (x \div 10000) * 10000 <= x
  OBVIOUS
<1>4. (reach - parts) \in Int /\ (parts + reach) \in Int
  BY <1>1
<1>5. n * Bps <= parts + reach /\ -n * Bps <= reach - parts
  BY <1>1, <1>2, <1>3, <1>4 DEF Bps
<1> QED BY <1>1, <1>2, <1>5 DEF reach, Bps

\* Rounding errors that add up stay within a unit and what float64 lost.
LEMMA WithinLost ==
    ASSUME NEW d \in Int, NEW e \in Nat,
           d * Bps <= Bps + Bps \div 2 + e, -(d * Bps) <= Bps + Bps \div 2 + e
    PROVE  Magnitude(d) <= 1 + (Bps \div 2 + e) \div Bps
<1>1. d * 10000 <= 15000 + e /\ -(d * 10000) <= 15000 + e
  BY DEF Bps
<1>2. d <= 1 + (5000 + e) \div 10000 /\ -d <= 1 + (5000 + e) \div 10000
  BY <1>1
<1> QED BY <1>2 DEF Magnitude, Bps

\* Every row CreatePayment can save is balanced.
LEMMA RowBalanced ==
    ASSUME NEW f, NEW i, NEW b \in Nat, NEW c, NEW name, i.amount \in Nat,
           PlatformFeeParts(f, i.amount) \in Int, NEW charge \in CalculateFees(f, i, b, c)
    PROVE  LET row == PaymentRow(charge, i, name)
               lost == (Bps \div 2 + (Blur(i.amount * Bps) + 2 * Blur(PlatformFeeParts(f, i.amount))
                                        + 2 * Blur(b * Bps))) \div Bps
           IN  /\ charge.total \in Int
               /\ row.charged = row.amount + charge.total
               /\ Magnitude(charge.platform + charge.bridge - charge.total) <= 1 + lost
               /\ ~i.swap => Magnitude(row.dest + row.fee - row.amount) <= 1 + lost
<1> DEFINE p == PlatformFeeParts(f, i.amount)
           ep == Blur(p)
           eb == Blur(b * Bps)
           ea == Blur(i.amount * Bps)
           row == PaymentRow(charge, i, name)
<1>1. p \in Int /\ b * Bps \in Int /\ i.amount * Bps \in Int
  BY DEF Bps
<1>2. ep \in Nat /\ eb \in Nat /\ ea \in Nat
  BY <1>1, BlurType
<1>3. /\ charge.platform \in FormatAmount(p, ep)
      /\ charge.bridge \in FormatAmount(b * Bps, eb)
      /\ charge.total \in FormatAmount(p + b * Bps, ep + eb)
      /\ ~i.swap => charge.net \in FormatAmount(i.amount * Bps - (p + b * Bps), ea + (ep + eb))
  BY DEF CalculateFees, FeeBreakdowns, None
<1> HIDE DEF p, ep, eb, ea
<1>4. /\ charge.platform \in Int
      /\ charge.platform * Bps - p <= Bps \div 2 + ep
      /\ p - charge.platform * Bps <= Bps \div 2 + ep
  BY <1>1, <1>2, <1>3, FormatAmountNear
<1>5. /\ charge.bridge \in Int
      /\ charge.bridge * Bps - b * Bps <= Bps \div 2 + eb
      /\ b * Bps - charge.bridge * Bps <= Bps \div 2 + eb
  BY <1>1, <1>2, <1>3, FormatAmountNear
<1>6. /\ charge.total \in Int
      /\ charge.total * Bps - (p + b * Bps) <= Bps \div 2 + (ep + eb)
      /\ (p + b * Bps) - charge.total * Bps <= Bps \div 2 + (ep + eb)
  <2>1. p + b * Bps \in Int /\ ep + eb \in Nat
    BY <1>1, <1>2
  <2> QED BY <2>1, <1>3, FormatAmountNear
<1>7. ASSUME ~i.swap
      PROVE  /\ charge.net \in Int
             /\ charge.net * Bps - (i.amount * Bps - (p + b * Bps)) <= Bps \div 2 + (ea + (ep + eb))
             /\ (i.amount * Bps - (p + b * Bps)) - charge.net * Bps <= Bps \div 2 + (ea + (ep + eb))
  <2>1. i.amount * Bps - (p + b * Bps) \in Int /\ ea + (ep + eb) \in Nat
    BY <1>1, <1>2
  <2> QED BY <2>1, <1>3, <1>7, FormatAmountNear
<1> DEFINE e == ea + 2 * ep + 2 * eb
<1>8. e \in Nat
  BY <1>2
<1>9. Magnitude(charge.platform + charge.bridge - charge.total) <= 1 + (Bps \div 2 + e) \div Bps
  <2> DEFINE d == charge.platform + charge.bridge - charge.total
  <2>1. d \in Int /\ d * Bps <= Bps + Bps \div 2 + e /\ -(d * Bps) <= Bps + Bps \div 2 + e
    BY <1>1, <1>2, <1>4, <1>5, <1>6 DEF Bps
  <2> HIDE DEF d, e
  <2>2. Magnitude(d) <= 1 + (Bps \div 2 + e) \div Bps
    BY <2>1, <1>8, WithinLost
  <2> QED BY <2>2 DEF d
<1>10. ~i.swap => Magnitude(charge.net + charge.total - i.amount) <= 1 + (Bps \div 2 + e) \div Bps
  <2> SUFFICES ASSUME ~i.swap
               PROVE  Magnitude(charge.net + charge.total - i.amount) <= 1 + (Bps \div 2 + e) \div Bps
    OBVIOUS
  <2> DEFINE d == charge.net + charge.total - i.amount
  <2>1. d \in Int /\ d * Bps <= Bps + Bps \div 2 + e /\ -(d * Bps) <= Bps + Bps \div 2 + e
    BY <1>1, <1>2, <1>6, <1>7 DEF Bps
  <2> HIDE DEF d, e
  <2>2. Magnitude(d) <= 1 + (Bps \div 2 + e) \div Bps
    BY <2>1, <1>8, WithinLost
  <2> QED BY <2>2 DEF d
<1>11. /\ row.charged = i.amount + charge.total /\ row.amount = i.amount
       /\ row.dest = charge.net /\ row.fee = charge.total
  BY DEF PaymentRow
<1> HIDE DEF row
<1> QED BY <1>6, <1>9, <1>10, <1>11 DEF row, p, ep, eb, ea

\* The approval covers the charge on each of the paths without a preview.
LEMMA ApprovalCovers == ASSUME NEW c \in Chains, NEW row, row.amount \in Nat, row.charged \in Int
                        PROVE  ApprovalAmount(c, 0, row) >= row.charged
<1> DEFINE quoted == CalculateOnchainApprovalAmount(c, row)
           share == Smaller((row.amount * c.params.bps) \div Bps, c.params.cap)
           total == Larger(row.amount + share, row.charged)
<1>1. c.rpc /\ c.params.bps # None => total \in Int /\ total >= row.charged
  <2> SUFFICES ASSUME c.params.bps # None PROVE total \in Int /\ total >= row.charged
    OBVIOUS
  <2>1. c.params.bps \in Nat /\ c.params.cap \in Nat
    BY ChainsAssumption
  <2>2. row.amount * c.params.bps \in Nat
    BY <2>1
  <2>3. share \in Int
    BY <2>1, <2>2 DEF Smaller, Bps
  <2> HIDE DEF share
  <2> QED BY <2>3 DEF Larger
<1>2. \A x, y : y \in Int => Larger(x, y) >= y
  BY DEF Larger
<1>3. \A x \in Int : x + Larger(x \div 100, 1000) >= x
  BY DEF Larger
<1>4. quoted = IF QuoteGatewayPaymentCost(c).total # None
               THEN Larger(QuoteGatewayPaymentCost(c).total, row.charged)
               ELSE IF c.rpc /\ c.total # None THEN Larger(c.total, row.charged)
               ELSE IF c.rpc /\ c.params.bps # None THEN total + Larger(total \div 100, 1000)
               ELSE None
  BY DEF CalculateOnchainApprovalAmount
<1> HIDE DEF total
<1>5. c.rpc /\ c.params.bps # None => total + Larger(total \div 100, 1000) >= row.charged
  BY <1>1, <1>3 DEF Larger
<1>6. quoted # None => quoted >= row.charged
  BY <1>2, <1>4, <1>5
<1> HIDE DEF quoted
<1>7. ApprovalAmount(c, 0, row) = IF quoted # None THEN quoted
                                  ELSE IF row.charged # 0 THEN row.charged ELSE row.amount
  BY DEF ApprovalAmount, quoted
<1> QED BY <1>6, <1>7

\* A sequence that is not empty, taken apart.
LEMMA HeadTailType == ASSUME NEW S, NEW o \in Seq(S), o # <<>>
                      PROVE  /\ Head(o) \in S /\ Tail(o) \in Seq(S)
                             /\ Len(o) # 1 => Tail(o) # <<>>
<1>1. Len(o) \in Nat \ {0} /\ Head(o) \in S /\ Tail(o) \in Seq(S) /\ Len(Tail(o)) = Len(o) - 1
  BY HeadTailProperties, EmptySeq
<1> QED BY <1>1

\* The steps of one request.
LEMMA RequestStep == ASSUME TablesInv, RequestsInv, NEW r \in Requests, CreatePayment(r)
                     PROVE  RequestOK(req'[r]) /\ \A s \in Requests \ {r} : req'[s] = req[s]
<1> DEFINE q == req[r]
<1>p. ASSUME NEW rec, Put(r, rec) PROVE req'[r] = rec /\ \A s \in Requests \ {r} : req'[s] = req[s]
  BY <1>p DEF Put, RequestsInv
<1>q. ASSUME q.pc # "idle" PROVE RequestOK(q)
  BY <1>q DEF RequestsInv
<1>c. chain \in Chains
  BY DEF TablesInv
<1> HIDE DEF q
<1>1. ASSUME NEW i \in Inputs, Start(r, i)
      PROVE  RequestOK(req'[r]) /\ \A s \in Requests \ {r} : req'[s] = req[s]
  <2>1. PICK bridge, contract :
            Put(r, [pc |-> "fees", in |-> i, contract |-> contract, bridge |-> bridge,
                    fees |-> DefaultFees, order |-> <<>>, gw |-> NoBridge, snap |-> NoPolicy,
                    fee |-> 0, by |-> NoBridge, back |-> "save", quoted |-> 0, charge |-> NoFees,
                    row |-> [amount |-> None],
                    previewed |-> 0, value |-> 0, source |-> "none", approval |-> 0,
                    txs |-> <<>>])
    BY <1>1 DEF Start, q
  <2> QED BY <2>1, <1>p DEF RequestOK, PlanFields, Balanced, Lost
<1>2. CASE ReadFeeConfig(r)
  <2>1. RequestOK(q) /\ q.pc = "fees"
    BY <1>2, <1>q DEF ReadFeeConfig, At, q
  <2> DEFINE f == IF fees # <<>> THEN Head(fees) ELSE DefaultFees
             to == IF q.in.cross /\ q.in.native THEN "order" ELSE "save"
             rec == [q EXCEPT !.fees = f, !.pc = to]
  <2>2. f \in FeeRows \cup {DefaultFees} /\ to \in {"order", "save"}
    BY DEF TablesInv
  <2>3. Put(r, rec)
    BY <1>2 DEF ReadFeeConfig, q
  <2> HIDE DEF f, to
  <2>4. /\ DOMAIN rec = PlanFields /\ rec.pc = to /\ rec.fees = f
        /\ rec.approval = q.approval /\ rec.charge = q.charge
        /\ rec.in = q.in /\ rec.fee = q.fee /\ rec.back = q.back /\ rec.row = q.row
        /\ rec.previewed = q.previewed
    BY <2>1 DEF RequestOK, PlanFields
  <2> HIDE DEF rec
  <2>5. RequestOK(rec)
    BY <2>1, <2>2, <2>4 DEF RequestOK, Balanced, Lost
  <2> QED BY <2>3, <2>5, <1>p
<1>3. CASE ResolveBridgeOrder(r)
  <2>1. RequestOK(q) /\ q.pc = "order"
    BY <1>3, <1>q DEF ResolveBridgeOrder, At, q
  <2> DEFINE ord == IF policy = NoPolicy THEN <<>> ELSE BuildBridgeOrderFromPolicy(policy)
             to == IF ~(chain.router /\ chain.rpc) THEN q.back
                   ELSE IF policy = NoPolicy THEN "bootstrap" ELSE "gateway"
  <2>2. policy # NoPolicy => ord \in Seq(BridgeTypes) \ {<<>>}
    BY OrderType DEF TablesInv
  <2>3. to \in {q.back, "bootstrap", "gateway"} /\ (to = "gateway" => policy # NoPolicy)
    BY <2>1 DEF RequestOK
  <2> DEFINE rec == [q EXCEPT !.fee = 0, !.by = NoBridge, !.gw = NoBridge, !.snap = policy,
                              !.order = ord, !.pc = to]
  <2>4. Put(r, rec)
    BY <1>3 DEF ResolveBridgeOrder, q
  <2> HIDE DEF ord, to
  <2>5. /\ DOMAIN rec = PlanFields /\ rec.pc = to /\ rec.fee = 0 /\ rec.order = ord
        /\ rec.approval = q.approval /\ rec.charge = q.charge /\ rec.in = q.in
        /\ rec.fees = q.fees /\ rec.quoted = q.quoted /\ rec.back = q.back
        /\ rec.row = q.row /\ rec.previewed = q.previewed
    BY <2>1 DEF RequestOK, PlanFields
  <2> HIDE DEF rec
  <2>6. RequestOK(rec)
    BY <2>1, <2>2, <2>3, <2>5 DEF RequestOK, Balanced, Lost
  <2> QED BY <2>4, <2>6, <1>p
<1>4. CASE BootstrapDefaultRoutePolicy(r)
  <2>1. RequestOK(q) /\ q.pc = "bootstrap" /\ Put(r, [q EXCEPT !.pc = "decide"])
    BY <1>4, <1>q DEF BootstrapDefaultRoutePolicy, At, Move, q
  <2> QED BY <2>1, <1>p DEF RequestOK, PlanFields, Balanced, Lost
<1>5. CASE OrderFromDecision(r)
  <2>1. RequestOK(q) /\ q.pc = "decide"
    BY <1>5, <1>q DEF OrderFromDecision, At, q
  <2>2. PICK b \in BridgeTypes : Put(r, [q EXCEPT !.order = <<b>>, !.snap = policy,
                                                  !.pc = "gateway"])
    BY <1>5, BridgeNameType DEF OrderFromDecision, q
  <2> DEFINE rec == [q EXCEPT !.order = <<b>>, !.snap = policy, !.pc = "gateway"]
  <2>3. /\ DOMAIN rec = PlanFields /\ rec.pc = "gateway" /\ rec.order = <<b>>
        /\ rec.fee = q.fee /\ rec.approval = q.approval /\ rec.charge = q.charge
        /\ rec.in = q.in /\ rec.fees = q.fees /\ rec.quoted = q.quoted
        /\ rec.back = q.back /\ rec.row = q.row /\ rec.previewed = q.previewed
    BY <2>1 DEF RequestOK, PlanFields
  <2>4. req'[r] = rec /\ \A s \in Requests \ {r} : req'[s] = req[s]
    BY <2>2, <1>p
  <2> HIDE DEF rec
  <2>5. <<b>> \in Seq(BridgeTypes) /\ <<b>> # <<>>
    BY <2>2
  <2>6. RequestOK(rec)
    BY <2>1, <2>3, <2>5 DEF RequestOK, Balanced, Lost
  <2> QED BY <2>4, <2>6
<1>6. CASE ReadGateway(r)
  <2>1. RequestOK(q) /\ q.pc = "gateway"
    BY <1>6, <1>q DEF ReadGateway, At, q
  <2>2. ReadGatewayDefaultBridgeType(chain) # NoBridge => chain.default \in BridgeTypes
    BY <1>c, ChainsAssumption DEF ReadGatewayDefaultBridgeType
  <2> DEFINE ord == IF ReadGatewayDefaultBridgeType(chain) # NoBridge THEN <<chain.default>>
                    ELSE q.order
  <2>3. ord \in Seq(BridgeTypes) /\ ord # <<>>
    BY <2>1, <2>2 DEF RequestOK
  <2>4. PICK g : Put(r, [q EXCEPT !.gw = g, !.pc = "try", !.order = ord])
    BY <1>6, <2>1 DEF ReadGateway, RequestOK, PlanFields, q
  <2> HIDE DEF ord
  <2> DEFINE rec == [q EXCEPT !.gw = g, !.pc = "try", !.order = ord]
  <2>5. /\ DOMAIN rec = PlanFields /\ rec.pc = "try" /\ rec.order = ord
        /\ rec.fee = q.fee /\ rec.approval = q.approval /\ rec.charge = q.charge
        /\ rec.in = q.in /\ rec.fees = q.fees /\ rec.quoted = q.quoted
        /\ rec.back = q.back /\ rec.row = q.row /\ rec.previewed = q.previewed
    BY <2>1 DEF RequestOK, PlanFields
  <2>6. req'[r] = rec /\ \A s \in Requests \ {r} : req'[s] = req[s]
    BY <2>4, <1>p
  <2> HIDE DEF rec
  <2>7. RequestOK(rec)
    BY <2>1, <2>3, <2>5 DEF RequestOK, Balanced, Lost
  <2> QED BY <2>6, <2>7
<1>7. CASE TryBridge(r)
  <2>1. RequestOK(q) /\ q.pc = "try"
    BY <1>7, <1>q DEF TryBridge, At, q
  <2>2. /\ q.order \in Seq(BridgeTypes) /\ q.order # <<>> /\ Head(q.order) \in BridgeTypes
        /\ Tail(q.order) \in Seq(BridgeTypes) /\ (Len(q.order) # 1 => Tail(q.order) # <<>>)
    <3>1. q.order \in Seq(BridgeTypes) /\ q.order # <<>>
      BY <2>1 DEF RequestOK
    <3> QED BY <3>1, HeadTailType
  <2>3. QuoteBridgeFeeByType(chain, Head(q.order)) \in Nat
    BY <2>2, <1>c, ChainsAssumption DEF QuoteBridgeFeeByType
  <2>4. CASE QuoteBridgeFeeByType(chain, Head(q.order)) > 0
    <3>1. PICK fee \in Nat : \E b : Put(r, [q EXCEPT !.fee = fee, !.by = b, !.pc = q.back])
      BY <1>7, <2>3, <2>4 DEF TryBridge, q
    <3>2. PICK b : Put(r, [q EXCEPT !.fee = fee, !.by = b, !.pc = q.back])
      BY <3>1
    <3> DEFINE rec == [q EXCEPT !.fee = fee, !.by = b, !.pc = q.back]
    <3>3. /\ DOMAIN rec = PlanFields /\ rec.pc = q.back /\ rec.order = q.order
          /\ rec.fee = fee /\ rec.approval = q.approval /\ rec.charge = q.charge
          /\ rec.in = q.in /\ rec.fees = q.fees /\ rec.quoted = q.quoted
          /\ rec.back = q.back /\ rec.row = q.row /\ rec.previewed = q.previewed
      BY <2>1 DEF RequestOK, PlanFields
    <3>4. req'[r] = rec /\ \A s \in Requests \ {r} : req'[s] = req[s]
      BY <3>2, <1>p
    <3> HIDE DEF rec
    <3>5. RequestOK(rec)
      BY <2>1, <3>1, <3>3 DEF RequestOK, Balanced, Lost
    <3> QED BY <3>4, <3>5
  <2>5. CASE ~(QuoteBridgeFeeByType(chain, Head(q.order)) > 0)
    <3> DEFINE to == IF Len(q.order) = 1 THEN q.back ELSE "try"
               rest == Tail(q.order)
               rec == [q EXCEPT !.order = rest, !.pc = to]
    <3>1. Put(r, rec)
      BY <1>7, <2>1, <2>5 DEF TryBridge, RequestOK, PlanFields, q
    <3>2. Len(q.order) = 1 => to = q.back
      OBVIOUS
    <3>6. Len(q.order) # 1 => to = "try"
      OBVIOUS
    <3>7. Len(q.order) # 1 => rest # <<>> /\ rest \in Seq(BridgeTypes)
      BY <2>2
    <3> HIDE DEF to, rest
    <3>3. /\ DOMAIN rec = PlanFields /\ rec.pc = to /\ rec.order = rest
          /\ rec.fee = q.fee /\ rec.approval = q.approval /\ rec.charge = q.charge
          /\ rec.in = q.in /\ rec.fees = q.fees /\ rec.quoted = q.quoted
          /\ rec.back = q.back /\ rec.row = q.row /\ rec.previewed = q.previewed
      BY <2>1 DEF RequestOK, PlanFields
    <3> HIDE DEF rec
    <3>4. RequestOK(rec)
      BY <2>1, <3>2, <3>3, <3>6, <3>7 DEF RequestOK, Balanced, Lost
    <3> QED BY <3>1, <3>4, <1>p
  <2> QED BY <2>4, <2>5
<1>8. CASE SavePayment(r)
  <2>1. RequestOK(q) /\ q.pc = "save"
    BY <1>8, <1>q DEF SavePayment, At, q
  <2> DEFINE bridgeFee == IF ~(q.in.cross /\ q.in.native) THEN 0
                          ELSE IF q.fee > 0 THEN q.fee ELSE BridgeFeeFlat
  <2>2. bridgeFee \in Nat /\ q.in.amount \in Nat
    BY <2>1, PlanBounds DEF RequestOK, BridgeFeeFlat
  <2>3. PICK f \in CalculateFees(q.fees, q.in, bridgeFee, chain) :
          Put(r, [q EXCEPT !.quoted = bridgeFee, !.charge = f,
                           !.row = PaymentRow(f, q.in, q.bridge), !.pc = "build"])
    BY <1>8 DEF SavePayment, q
  <2> DEFINE row == PaymentRow(f, q.in, q.bridge)
             rec == [q EXCEPT !.quoted = bridgeFee, !.charge = f, !.row = row, !.pc = "build"]
  <2> HIDE DEF bridgeFee
  <2>4. PlatformFeeParts(q.fees, q.in.amount) \in Int
    BY <2>1, <2>2, PlatformFeeType DEF RequestOK
  <2>5. row.amount = q.in.amount
    BY DEF PaymentRow
  <2> DEFINE lost == (Bps \div 2 + (Blur(q.in.amount * Bps)
                                     + 2 * Blur(PlatformFeeParts(q.fees, q.in.amount))
                                     + 2 * Blur(bridgeFee * Bps))) \div Bps
  <2>6. /\ f.total \in Int
        /\ row.charged = row.amount + f.total
        /\ Magnitude(f.platform + f.bridge - f.total) <= 1 + lost
        /\ ~q.in.swap => Magnitude(row.dest + row.fee - row.amount) <= 1 + lost
    BY <2>2, <2>3, <2>4, RowBalanced
  <2> HIDE DEF row
  <2>7. /\ DOMAIN rec = PlanFields /\ rec.pc = "build" /\ rec.row = row
        /\ rec.charge = f /\ rec.fee = q.fee /\ rec.approval = q.approval /\ rec.in = q.in
        /\ rec.fees = q.fees /\ rec.quoted = bridgeFee
        /\ rec.back = q.back /\ rec.order = q.order /\ rec.previewed = q.previewed
    BY <2>1 DEF RequestOK, PlanFields
  <2>8. Put(r, rec)
    BY <2>3 DEF row
  <2> HIDE DEF rec
  <2>9. Lost(rec) = lost
    BY <2>7 DEF Lost
  <2> HIDE DEF lost
  <2>10. Balanced(rec)
    BY <2>6, <2>7, <2>9 DEF Balanced
  <2>11. RequestOK(rec)
    BY <2>1, <2>2, <2>5, <2>6, <2>7, <2>10 DEF RequestOK, None
  <2> QED BY <2>8, <2>11, <1>p
<1>9. CASE SaveFails(r)
  <2>1. RequestOK(q) /\ q.pc = "save" /\ Put(r, [q EXCEPT !.pc = "failed"])
    BY <1>9, <1>q DEF SaveFails, At, Move, q
  <2> QED BY <2>1, <1>p DEF RequestOK, PlanFields, Balanced, Lost
<1>10. CASE PreviewApproval(r)
  <2>1. RequestOK(q) /\ q.pc = "build" /\ q.row.amount # None /\ q.approval = 0
    BY <1>10, <1>q DEF PreviewApproval, At, RequestOK, q
  <2>2. \/ \E x \in {"done", "failed"} : Put(r, [q EXCEPT !.pc = x])
        \/ \E p, v, src : \E x \in {"order", "approve"} :
              Put(r, [q EXCEPT !.previewed = p, !.value = v, !.source = src,
                               !.back = "margin", !.pc = x])
    BY <1>10 DEF PreviewApproval, q
  <2>3. CASE \E x \in {"done", "failed"} : Put(r, [q EXCEPT !.pc = x])
    BY <2>1, <2>3, <1>p DEF RequestOK, PlanFields, Balanced, Lost
  <2>4. CASE \E p, v, src : \E x \in {"order", "approve"} :
              Put(r, [q EXCEPT !.previewed = p, !.value = v, !.source = src,
                               !.back = "margin", !.pc = x])
    <3>1. PICK p, v, src, x : /\ x \in {"order", "approve"}
                              /\ Put(r, [q EXCEPT !.previewed = p, !.value = v, !.source = src,
                                                  !.back = "margin", !.pc = x])
      BY <2>4
    <3> DEFINE rec == [q EXCEPT !.previewed = p, !.value = v, !.source = src,
                                !.back = "margin", !.pc = x]
    <3>2. /\ DOMAIN rec = PlanFields /\ rec.pc = x /\ rec.back = "margin" /\ rec.previewed = p
          /\ rec.fee = q.fee /\ rec.approval = q.approval /\ rec.charge = q.charge
          /\ rec.in = q.in /\ rec.fees = q.fees /\ rec.quoted = q.quoted
          /\ rec.row = q.row /\ rec.order = q.order
      BY <2>1 DEF RequestOK, PlanFields
    <3>3. req'[r] = rec /\ \A s \in Requests \ {r} : req'[s] = req[s]
      BY <3>1, <1>p
    <3> HIDE DEF rec
    <3>4. RequestOK(rec)
      BY <2>1, <3>1, <3>2 DEF RequestOK, Balanced, Lost
    <3> QED BY <3>3, <3>4
  <2> QED BY <2>2, <2>3, <2>4
<1>11. CASE BridgeValue(r)
  <2>1. RequestOK(q) /\ q.pc = "margin"
    BY <1>11, <1>q DEF BridgeValue, At, q
  <2>2. \/ Put(r, [q EXCEPT !.pc = "failed"])
        \/ \E v, src : Put(r, [q EXCEPT !.value = v, !.pc = "approve", !.source = src])
    BY <1>11 DEF BridgeValue, q
  <2>3. CASE Put(r, [q EXCEPT !.pc = "failed"])
    BY <2>1, <2>3, <1>p DEF RequestOK, PlanFields, Balanced, Lost
  <2>4. ASSUME NEW v, NEW src,
               Put(r, [q EXCEPT !.value = v, !.pc = "approve", !.source = src])
        PROVE  RequestOK(req'[r]) /\ \A s \in Requests \ {r} : req'[s] = req[s]
    <3> DEFINE rec == [q EXCEPT !.value = v, !.pc = "approve", !.source = src]
    <3>1. /\ DOMAIN rec = PlanFields /\ rec.pc = "approve" /\ rec.back = q.back
          /\ rec.fee = q.fee /\ rec.approval = q.approval /\ rec.charge = q.charge
          /\ rec.in = q.in /\ rec.fees = q.fees /\ rec.quoted = q.quoted
          /\ rec.row = q.row /\ rec.order = q.order /\ rec.previewed = q.previewed
      BY <2>1 DEF RequestOK, PlanFields
    <3>2. req'[r] = rec /\ \A s \in Requests \ {r} : req'[s] = req[s]
      BY <2>4, <1>p
    <3> HIDE DEF rec
    <3>3. RequestOK(rec)
      BY <2>1, <3>1 DEF RequestOK, Balanced, Lost
    <3> QED BY <3>2, <3>3
  <2> QED BY <2>2, <2>3, <2>4
<1>12. CASE BuildTransactions(r)
  <2>1. RequestOK(q) /\ q.pc = "approve" /\ q.row.amount # None
    BY <1>12, <1>q DEF BuildTransactions, At, RequestOK, q
  <2> DEFINE app == IF q.in.native THEN 0 ELSE ApprovalAmount(chain, q.previewed, q.row)
  <2>2. app > 0 /\ q.previewed = 0 => app >= q.row.charged
    <3> SUFFICES ASSUME app > 0, q.previewed = 0 PROVE app >= q.row.charged
      OBVIOUS
    <3>1. app = ApprovalAmount(chain, 0, q.row)
      OBVIOUS
    <3>2. q.row.amount \in Nat /\ q.row.charged \in Int
      BY <2>1 DEF RequestOK
    <3> QED BY <3>1, <3>2, <1>c, ApprovalCovers
  <2>3. \/ Put(r, [q EXCEPT !.pc = "failed"])
        \/ \E t : Put(r, [q EXCEPT !.txs = t, !.approval = app, !.pc = "done"])
    BY <1>12 DEF BuildTransactions, q
  <2> HIDE DEF app
  <2>4. CASE Put(r, [q EXCEPT !.pc = "failed"])
    BY <2>1, <2>4, <1>p DEF RequestOK, PlanFields, Balanced, Lost
  <2>5. ASSUME NEW t, Put(r, [q EXCEPT !.txs = t, !.approval = app, !.pc = "done"])
        PROVE  RequestOK(req'[r]) /\ \A s \in Requests \ {r} : req'[s] = req[s]
    <3> DEFINE rec == [q EXCEPT !.txs = t, !.approval = app, !.pc = "done"]
    <3>1. /\ DOMAIN rec = PlanFields /\ rec.pc = "done" /\ rec.back = q.back
          /\ rec.fee = q.fee /\ rec.approval = app /\ rec.charge = q.charge /\ rec.in = q.in
          /\ rec.fees = q.fees /\ rec.quoted = q.quoted
          /\ rec.row = q.row /\ rec.order = q.order /\ rec.previewed = q.previewed
      BY <2>1 DEF RequestOK, PlanFields
    <3>2. req'[r] = rec /\ \A s \in Requests \ {r} : req'[s] = req[s]
      BY <2>5, <1>p
    <3> HIDE DEF rec
    <3>3. RequestOK(rec)
      BY <2>1, <2>2, <3>1 DEF RequestOK, Balanced, Lost
    <3> QED BY <3>2, <3>3
  <2> QED BY <2>3, <2>4, <2>5
<1> QED BY <1>1, <1>2, <1>3, <1>4, <1>5, <1>6, <1>7, <1>8, <1>9, <1>10, <1>11, <1>12
        DEF CreatePayment

\* What the requests know and have saved, at every step.
LEMMA RequestsStep == ASSUME TablesInv, RequestsInv, [Next]_vars PROVE RequestsInv'
<1>1. ASSUME NEW r \in Requests, CreatePayment(r) PROVE RequestsInv'
  <2>1. RequestOK(req'[r]) /\ \A s \in Requests \ {r} : req'[s] = req[s]
    BY <1>1, RequestStep
  <2>2. DOMAIN req' = Requests
    BY <1>1 DEF RequestsInv, CreatePayment, Start, ReadFeeConfig, ResolveBridgeOrder,
                BootstrapDefaultRoutePolicy, OrderFromDecision, ReadGateway, TryBridge,
                SavePayment, SaveFails, PreviewApproval, BridgeValue, BuildTransactions,
                Move, Put
  <2> QED BY <2>1, <2>2 DEF RequestsInv
<1>2. ASSUME UNCHANGED req PROVE RequestsInv'
  BY <1>2 DEF RequestsInv
<1>3. Administer => UNCHANGED req
  BY DEF Administer, CreateRoutePolicy, ReadRoutePolicy, UpdateRoutePolicy, DeleteRoutePolicy,
         CreateBridgeConfig, UpdateBridgeConfig, DeleteBridgeConfig, CreateFeeConfig,
         UpdateFeeConfig, DeleteFeeConfig
<1>4. \A c \in Chains : ChainChanges(c) => UNCHANGED req
  BY DEF ChainChanges
<1>5. UNCHANGED vars => UNCHANGED req
  BY DEF vars
<1> QED BY <1>1, <1>2, <1>3, <1>4, <1>5 DEF Next

LEMMA RequestsInvariance == Spec => []RequestsInv
<1>1. Init => TablesInv /\ RequestsInv
  BY DEF Init, TablesInv, RequestsInv, Idle, NoPolicy
<1>2. TablesInv /\ RequestsInv /\ [Next]_vars => TablesInv' /\ RequestsInv'
  BY TablesStep, RequestsStep
<1> QED BY <1>1, <1>2, PTL DEF Spec

(* Without a preview, the approval the payer signs covers what the saved      *)
(* payment charges, whichever of the three quotes buildTransactionData got.   *)
THEOREM ApprovalCorrect == Spec => []ApprovalCoversCharge
<1>1. RequestsInv => ApprovalCoversCharge
  BY DEF RequestsInv, RequestOK, ApprovalCoversCharge, Started
<1> QED BY <1>1, RequestsInvariance, PTL

(* A payment's fees add up, for every amount, every fee configuration and      *)
(* every precision of the arithmetic: to within one unit, and to what float64  *)
(* loses of amounts beyond its mantissa.                                       *)
THEOREM FeesCorrect == Spec => []FeesAddUp
<1>1. RequestsInv => FeesAddUp
  BY DEF RequestsInv, RequestOK, Balanced, FeesAddUp, Saved, Started
<1> QED BY <1>1, RequestsInvariance, PTL


-----------------------------------------------------------------------------
(* RouteConfig: the scripts *)

Asked == UNION {Ops[c] : c \in Calls}

LEMMA AskedOp == ASSUME NEW c \in Calls, NEW o \in Ops[c]
                 PROVE  /\ o \in Asked /\ o \in Op
                        /\ o.kind \in Kinds /\ o.b \in Bridges \cup {Unset}
                        /\ o.addr \in Adapters \cup {Zero} /\ o.names \subseteq InputFields(o)
                        /\ o.b = Unset => o.kind = "AutoFix"
                        /\ o.kind = "Register" => o.addr # Zero
<1>1. o \in Asked /\ o \in Op
  BY OpsAssumption DEF Asked
<1> QED BY <1>1, OpsAssumption DEF Op

LEMMA ScriptOf == ASSUME NEW o \in Asked PROVE Scripts[o] = Script(o)
  BY DEF Scripts, Asked

\* Steps that do one of D, and a sequence with a step that sets n.
StepOf(D) == [do : D, names : SUBSET Names]
Sets(n, d, s) == \E i \in 1 .. Len(s) : s[i].do = d /\ n \in s[i].names

LEMMA SetIfFacts ==
    ASSUME NEW D, NEW d \in D, NEW n \in Names, NEW asked
    PROVE  /\ SetIf(d, n, asked) \in Seq(StepOf(D))
           /\ n \in asked => Sets(n, d, SetIf(d, n, asked))
<1>1. CASE n \in asked
  <2>1. SetIf(d, n, asked) = << [do |-> d, names |-> {n}] >>
    BY <1>1 DEF SetIf
  <2>2. [do |-> d, names |-> {n}] \in StepOf(D)
    BY DEF StepOf
  <2> QED BY <2>1, <2>2 DEF Sets
<1>2. CASE n \notin asked
  BY <1>2 DEF SetIf
<1> QED BY <1>1, <1>2

LEMMA ConcatSets ==
    ASSUME NEW D, NEW s \in Seq(StepOf(D)), NEW t \in Seq(StepOf(D))
    PROVE  /\ s \o t \in Seq(StepOf(D))
           /\ \A n, d : Sets(n, d, s) \/ Sets(n, d, t) => Sets(n, d, s \o t)
<1>1. /\ s \o t \in Seq(StepOf(D)) /\ Len(s \o t) = Len(s) + Len(t)
      /\ \A i \in 1 .. Len(s) : (s \o t)[i] = s[i]
      /\ \A i \in 1 .. Len(t) : (s \o t)[Len(s) + i] = t[i]
  OBVIOUS
<1>2. ASSUME NEW n, NEW d, Sets(n, d, s) PROVE Sets(n, d, s \o t)
  BY <1>1, <1>2 DEF Sets
<1>3. ASSUME NEW n, NEW d, Sets(n, d, t) PROVE Sets(n, d, s \o t)
  <2>1. PICK i \in 1 .. Len(t) : t[i].do = d /\ n \in t[i].names
    BY <1>3 DEF Sets
  <2>2. Len(s) + i \in 1 .. Len(s \o t) /\ (s \o t)[Len(s) + i] = t[i]
    BY <1>1
  <2> QED BY <2>1, <2>2 DEF Sets
<1> QED BY <1>1, <1>2, <1>3

LEMMA HyperSettersFacts ==
    ASSUME NEW D, NEW d \in D, NEW asked
    PROVE  /\ HyperSetters(d, asked) \in Seq(StepOf(D))
           /\ \A n \in {"stateMachineId", "destinationContract"} \cap asked :
                 Sets(n, d, HyperSetters(d, asked))
<1> DEFINE s(n) == SetIf(d, n, asked)
<1>1. \A n \in Names : s(n) \in Seq(StepOf(D)) /\ (n \in asked => Sets(n, d, s(n)))
  BY SetIfFacts
<1>2. {"stateMachineId", "destinationContract"} \subseteq Names
  BY DEF Names
<1> HIDE DEF s
<1>3. HyperSetters(d, asked) = s("stateMachineId") \o s("destinationContract")
  BY DEF HyperSetters, s
<1> QED BY <1>1, <1>2, <1>3, ConcatSets

LEMMA E2ESettersFacts ==
    ASSUME NEW asked
    PROVE  LET D == {"setNew", "remoteNew"}
               all == E2ESetters(asked) \o E2EReceiverSetters(asked)
           IN  /\ all \in Seq(StepOf(D))
               /\ \A n \in {"route", "options", "delegate"} \cap asked : Sets(n, "setNew", all)
               /\ \A n \in {"peer", "vaultSpender", "gatewayAdapter"} \cap asked :
                     Sets(n, "remoteNew", all)
<1> DEFINE D == {"setNew", "remoteNew"}
           s(n) == SetIf("setNew", n, asked)
           t(n) == SetIf("remoteNew", n, asked)
<1>1. \A n \in Names : s(n) \in Seq(StepOf(D)) /\ (n \in asked => Sets(n, "setNew", s(n)))
  BY SetIfFacts
<1>2. \A n \in Names : t(n) \in Seq(StepOf(D)) /\ (n \in asked => Sets(n, "remoteNew", t(n)))
  BY SetIfFacts
<1>3. {"route", "options", "delegate", "peer", "vaultSpender", "gatewayAdapter"} \subseteq Names
  BY DEF Names
<1> HIDE DEF s, t, D
<1>4. /\ E2ESetters(asked) = (s("route") \o s("options")) \o s("delegate")
      /\ E2EReceiverSetters(asked) = (t("peer") \o t("vaultSpender")) \o t("gatewayAdapter")
  BY DEF E2ESetters, E2EReceiverSetters, s, t
<1>5. /\ s("route") \o s("options") \in Seq(StepOf(D))
      /\ \A n \in {"route", "options"} \cap asked : Sets(n, "setNew", s("route") \o s("options"))
  BY <1>1, <1>3, ConcatSets
<1>6. /\ E2ESetters(asked) \in Seq(StepOf(D))
      /\ \A n \in {"route", "options", "delegate"} \cap asked : Sets(n, "setNew", E2ESetters(asked))
  BY <1>1, <1>3, <1>4, <1>5, ConcatSets
<1>7. /\ t("peer") \o t("vaultSpender") \in Seq(StepOf(D))
      /\ \A n \in {"peer", "vaultSpender"} \cap asked :
            Sets(n, "remoteNew", t("peer") \o t("vaultSpender"))
  BY <1>2, <1>3, ConcatSets
<1>8. /\ E2EReceiverSetters(asked) \in Seq(StepOf(D))
      /\ \A n \in {"peer", "vaultSpender", "gatewayAdapter"} \cap asked :
            Sets(n, "remoteNew", E2EReceiverSetters(asked))
  BY <1>2, <1>3, <1>4, <1>7, ConcatSets
<1>9. /\ E2ESetters(asked) \o E2EReceiverSetters(asked) \in Seq(StepOf(D))
      /\ \A n \in {"route", "options", "delegate"} \cap asked :
            Sets(n, "setNew", E2ESetters(asked) \o E2EReceiverSetters(asked))
      /\ \A n \in {"peer", "vaultSpender", "gatewayAdapter"} \cap asked :
            Sets(n, "remoteNew", E2ESetters(asked) \o E2EReceiverSetters(asked))
  BY <1>6, <1>8, ConcatSets
<1> QED BY <1>9 DEF D

LEMMA StargateSettersFacts ==
    ASSUME NEW D, "set" \in D, NEW asked
    PROVE  /\ StargateSetters(asked) \in Seq(StepOf(D))
           /\ \A n \in {"route", "options"} \cap asked : Sets(n, "set", StargateSetters(asked))
<1> DEFINE s(n) == SetIf("set", n, asked)
<1>1. \A n \in Names : s(n) \in Seq(StepOf(D)) /\ (n \in asked => Sets(n, "set", s(n)))
  BY SetIfFacts
<1>2. {"route", "options"} \subseteq Names
  BY DEF Names
<1> HIDE DEF s
<1>3. StargateSetters(asked) = s("route") \o s("options")
  BY DEF StargateSetters, s
<1> QED BY <1>1, <1>2, <1>3, ConcatSets

LEMMA TokenGatewaySettersFacts ==
    ASSUME NEW D, "set" \in D, NEW asked
    PROVE  /\ TokenGatewaySetters(asked) \in Seq(StepOf(D))
           /\ \A n \in {"stateMachineId", "settlementExecutor", "nativeCost", "relayerFee"}
                        \cap asked : Sets(n, "set", TokenGatewaySetters(asked))
<1> DEFINE s(n) == SetIf("set", n, asked)
           u == s("stateMachineId") \o s("settlementExecutor")
           v == u \o s("nativeCost")
<1>1. \A n \in Names : s(n) \in Seq(StepOf(D)) /\ (n \in asked => Sets(n, "set", s(n)))
  BY SetIfFacts
<1>2. {"stateMachineId", "settlementExecutor", "nativeCost", "relayerFee"} \subseteq Names
  BY DEF Names
<1>3. TokenGatewaySetters(asked) = v \o s("relayerFee")
  BY DEF TokenGatewaySetters
<1> HIDE DEF s
<1>4. /\ u \in Seq(StepOf(D))
      /\ \A n \in {"stateMachineId", "settlementExecutor"} \cap asked : Sets(n, "set", u)
  BY <1>1, <1>2, ConcatSets
<1> HIDE DEF u
<1>5. /\ v \in Seq(StepOf(D))
      /\ \A n \in {"stateMachineId", "settlementExecutor", "nativeCost"} \cap asked :
            Sets(n, "set", v)
  BY <1>1, <1>2, <1>4, ConcatSets
<1> HIDE DEF v
<1> QED BY <1>1, <1>2, <1>3, <1>5, ConcatSets

LEMMA CCIPSettersFacts ==
    ASSUME NEW D, "set" \in D, NEW asked
    PROVE  /\ CCIPSetters(asked) \in Seq(StepOf(D))
           /\ \A n \in {"chainSelector", "destinationAdapter", "gasLimit", "extraArgs", "feeToken"}
                        \cap asked : Sets(n, "set", CCIPSetters(asked))
<1> DEFINE s(n) == SetIf("set", n, asked)
           u == s("chainSelector") \o s("destinationAdapter")
           v == u \o s("gasLimit")
           w == v \o s("extraArgs")
<1>1. \A n \in Names : s(n) \in Seq(StepOf(D)) /\ (n \in asked => Sets(n, "set", s(n)))
  BY SetIfFacts
<1>2. {"chainSelector", "destinationAdapter", "gasLimit", "extraArgs", "feeToken"} \subseteq Names
  BY DEF Names
<1>3. CCIPSetters(asked) = w \o s("feeToken")
  BY DEF CCIPSetters
<1> HIDE DEF s
<1>4. /\ u \in Seq(StepOf(D))
      /\ \A n \in {"chainSelector", "destinationAdapter"} \cap asked : Sets(n, "set", u)
  BY <1>1, <1>2, ConcatSets
<1> HIDE DEF u
<1>5. /\ v \in Seq(StepOf(D))
      /\ \A n \in {"chainSelector", "destinationAdapter", "gasLimit"} \cap asked : Sets(n, "set", v)
  BY <1>1, <1>2, <1>4, ConcatSets
<1> HIDE DEF v
<1>6. /\ w \in Seq(StepOf(D))
      /\ \A n \in {"chainSelector", "destinationAdapter", "gasLimit", "extraArgs"} \cap asked :
            Sets(n, "set", w)
  BY <1>1, <1>2, <1>5, ConcatSets
<1> HIDE DEF w
<1> QED BY <1>1, <1>2, <1>3, <1>6, ConcatSets

LEMMA CCIPConfigFacts ==
    ASSUME NEW asked
    PROVE  LET D == {"set", "remote"} IN
           /\ CCIPConfig(asked) \in Seq(StepOf(D))
           /\ \A n \in {"chainSelector", "destinationAdapter", "gasLimit", "extraArgs", "feeToken"}
                        \cap asked : Sets(n, "set", CCIPConfig(asked))
           /\ \A n \in {"trustedSender", "sourceChainAllowed"} \cap asked :
                 Sets(n, "remote", CCIPConfig(asked))
<1> DEFINE D == {"set", "remote"}
           both == {"chainSelector", "destinationAdapter"}
           rest == IF HasSetChainConfig /\ both \subseteq asked THEN asked \ both ELSE asked
           first == IF rest # asked THEN << [do |-> "set", names |-> both] >> ELSE <<>>
           t(n) == SetIf("remote", n, asked)
           u == first \o CCIPSetters(rest)
           v == t("trustedSender") \o t("sourceChainAllowed")
<1>1. CCIPConfig(asked) = u \o v
  BY DEF CCIPConfig, CCIPReceiverSetters
<1>2. /\ first \in Seq(StepOf(D))
      /\ rest # asked => \A n \in both : Sets(n, "set", first)
  <2>1. CASE rest # asked
    <3>1. first = << [do |-> "set", names |-> both] >>
      BY <2>1
    <3>2. [do |-> "set", names |-> both] \in StepOf(D)
      BY DEF StepOf, Names
    <3> HIDE DEF first, both
    <3> QED BY <3>1, <3>2 DEF Sets
  <2>2. CASE rest = asked
    BY <2>2
  <2> QED BY <2>1, <2>2
<1>3. /\ CCIPSetters(rest) \in Seq(StepOf(D))
      /\ \A n \in {"chainSelector", "destinationAdapter", "gasLimit", "extraArgs", "feeToken"}
                   \cap rest : Sets(n, "set", CCIPSetters(rest))
  BY CCIPSettersFacts
<1>4. \A n \in asked \ both : n \in rest
  OBVIOUS
<1>5. \A n \in Names : t(n) \in Seq(StepOf(D)) /\ (n \in asked => Sets(n, "remote", t(n)))
  BY SetIfFacts
<1>6. {"trustedSender", "sourceChainAllowed"} \subseteq Names
  BY DEF Names
<1> HIDE DEF t, first
<1>7. /\ v \in Seq(StepOf(D))
      /\ \A n \in {"trustedSender", "sourceChainAllowed"} \cap asked : Sets(n, "remote", v)
  BY <1>5, <1>6, ConcatSets
<1>8. /\ u \in Seq(StepOf(D))
      /\ \A n \in {"chainSelector", "destinationAdapter", "gasLimit", "extraArgs", "feeToken"}
                   \cap asked : Sets(n, "set", u)
  <2> HIDE DEF rest, both
  <2>1. u \in Seq(StepOf(D)) /\ \A n : Sets(n, "set", first) \/ Sets(n, "set", CCIPSetters(rest))
                                      => Sets(n, "set", u)
    BY <1>2, <1>3, ConcatSets
  <2> HIDE DEF u
  <2>2. ASSUME NEW n \in {"chainSelector", "destinationAdapter", "gasLimit", "extraArgs", "feeToken"},
               n \in asked
        PROVE  Sets(n, "set", u)
    BY <1>2, <1>3, <1>4, <2>1, <2>2
  <2> QED BY <2>1, <2>2
<1> HIDE DEF u, v, D
<1>9. /\ CCIPConfig(asked) \in Seq(StepOf(D))
      /\ \A n, d : Sets(n, d, u) \/ Sets(n, d, v) => Sets(n, d, CCIPConfig(asked))
  BY <1>1, <1>7, <1>8, ConcatSets
<1> QED BY <1>7, <1>8, <1>9 DEF D

\* The settings that are on the receiver.
Remote == {"trustedSender", "sourceChainAllowed", "peer", "vaultSpender", "gatewayAdapter"}

\* Script s begins with the k steps of first and goes on with those of rest.
Continued(s, first, k, rest, D) ==
    /\ Len(s) \in Nat /\ Len(s) >= k
    /\ \A i \in 1 .. k : s[i] = first[i]
    /\ \A i \in 1 .. Len(s) : i > k => s[i] \in StepOf(D)
    /\ \A n, d : Sets(n, d, rest) =>
          \E i \in 1 .. Len(s) : i > k /\ s[i].do = d /\ n \in s[i].names

LEMMA Continues ==
    ASSUME NEW D, NEW rest \in Seq(StepOf(D)), NEW S, NEW first \in Seq(S)
    PROVE  Continued(first \o rest, first, Len(first), rest, D)
<1> DEFINE T == S \cup StepOf(D)
           s == first \o rest
<1>1. first \in Seq(T) /\ rest \in Seq(T)
  BY SeqDef
<1>2. /\ s \in Seq(T) /\ Len(s) = Len(first) + Len(rest)
      /\ \A i \in 1 .. Len(first) : s[i] = first[i]
      /\ \A i \in 1 .. Len(rest) : s[Len(first) + i] = rest[i]
      /\ \A i \in 1 .. Len(s) : i > Len(first) => i - Len(first) \in 1 .. Len(rest)
                                                 /\ s[i] = rest[i - Len(first)]
  BY <1>1
<1> HIDE DEF T, s
<1>3. \A i \in 1 .. Len(rest) : rest[i] \in StepOf(D)
  OBVIOUS
<1>4. Len(first) \in Nat /\ Len(rest) \in Nat
  OBVIOUS
<1>5. ASSUME NEW n, NEW d, Sets(n, d, rest)
      PROVE  \E i \in 1 .. Len(s) : i > Len(first) /\ s[i].do = d /\ n \in s[i].names
  <2>1. PICK i \in 1 .. Len(rest) : rest[i].do = d /\ n \in rest[i].names
    BY <1>5 DEF Sets
  <2>2. /\ Len(first) + i \in 1 .. Len(s) /\ Len(first) + i > Len(first)
        /\ s[Len(first) + i] = rest[i]
    BY <1>2, <1>4
  <2> QED BY <2>1, <2>2
<1>6. \A i \in 1 .. Len(s) : i > Len(first) => s[i] \in StepOf(D)
  BY <1>2, <1>3
<1>7. Len(s) \in Nat /\ Len(s) >= Len(first)
  BY <1>2, <1>4
<1> QED BY <1>2, <1>5, <1>6, <1>7 DEF s, Continued

LEMMA AutoFixScript ==
    ASSUME NEW o \in Asked, o.kind = "AutoFix"
    PROVE  LET s == Scripts[o] IN
           /\ Len(s) \in Nat /\ Len(s) >= 5
           /\ s[1] = Do("readDefault") /\ s[2] = Do("readRest") /\ s[3] = Do("register")
           /\ s[4] = Do("default") /\ s[5] = Do("hyperbridge")
           /\ \A i \in 1 .. Len(s) : i > 5 => s[i] \in StepOf({"setHyper"})
           /\ \A n \in {"stateMachineId", "destinationContract"} \cap o.names :
                 \E i \in 1 .. Len(s) : i > 5 /\ s[i].do = "setHyper" /\ n \in s[i].names
<1> DEFINE rest == HyperSetters("setHyper", o.names)
           S == {Do("readDefault"), Do("readRest"), Do("register"), Do("default"), Do("hyperbridge")}
<1>1. Scripts[o] = AutoFix \o rest
  BY ScriptOf DEF Script
<1>2. /\ rest \in Seq(StepOf({"setHyper"}))
      /\ \A n \in {"stateMachineId", "destinationContract"} \cap o.names : Sets(n, "setHyper", rest)
  BY HyperSettersFacts
<1>3. AutoFix \in Seq(S) /\ Len(AutoFix) = 5
  BY DEF AutoFix
<1>4. /\ AutoFix[1] = Do("readDefault") /\ AutoFix[2] = Do("readRest")
      /\ AutoFix[3] = Do("register") /\ AutoFix[4] = Do("default")
      /\ AutoFix[5] = Do("hyperbridge")
  BY DEF AutoFix
<1> HIDE DEF rest, S
<1> DEFINE k == Len(AutoFix)
<1>5. k = 5 /\ 1 \in 1 .. k /\ 2 \in 1 .. k /\ 3 \in 1 .. k /\ 4 \in 1 .. k /\ 5 \in 1 .. k
  BY <1>3
<1>6. /\ Len(Scripts[o]) \in Nat /\ Len(Scripts[o]) >= k
      /\ \A i \in 1 .. k : Scripts[o][i] = AutoFix[i]
      /\ \A i \in 1 .. Len(Scripts[o]) : i > k => Scripts[o][i] \in StepOf({"setHyper"})
      /\ \A n, d : Sets(n, d, rest) =>
            \E i \in 1 .. Len(Scripts[o]) :
               i > k /\ Scripts[o][i].do = d /\ n \in Scripts[o][i].names
  <2>1. AutoFix \in Seq(S)
    BY <1>3
  <2>2. Continued(Scripts[o], AutoFix, k, rest, {"setHyper"})
    BY <1>1, <1>2, <2>1, Continues
  <2> HIDE DEF k
  <2> QED BY <2>2 DEF Continued
<1> HIDE DEF k
<1> QED BY <1>2, <1>4, <1>5, <1>6

LEMMA E2EScript ==
    ASSUME NEW o \in Asked, o.kind = "E2E"
    PROVE  LET s == Scripts[o]
               k == IF "default" \in o.names THEN 3 ELSE 2
           IN
           /\ Len(s) \in Nat /\ Len(s) >= k
           /\ s[1] = Do("sender") /\ s[2] = Do("register")
           /\ "default" \in o.names => s[3] = Do("default")
           /\ \A i \in 1 .. Len(s) : i > k => s[i] \in StepOf({"setNew", "remoteNew"})
           /\ \A n \in {"route", "options", "delegate"} \cap o.names :
                 \E i \in 1 .. Len(s) : i > k /\ s[i].do = "setNew" /\ n \in s[i].names
           /\ \A n \in {"peer", "vaultSpender", "gatewayAdapter"} \cap o.names :
                 \E i \in 1 .. Len(s) : i > k /\ s[i].do = "remoteNew" /\ n \in s[i].names
<1> DEFINE rest == E2ESetters(o.names) \o E2EReceiverSetters(o.names)
           S == {Do("sender"), Do("register"), Do("default")}
           first == IF "default" \in o.names THEN << Do("sender"), Do("register"), Do("default") >>
                    ELSE << Do("sender"), Do("register") >>
           k == IF "default" \in o.names THEN 3 ELSE 2
<1>1. Scripts[o] = first \o rest
  BY ScriptOf DEF Script, ConfigureStargateE2E
<1>2. /\ rest \in Seq(StepOf({"setNew", "remoteNew"}))
      /\ \A n \in {"route", "options", "delegate"} \cap o.names : Sets(n, "setNew", rest)
      /\ \A n \in {"peer", "vaultSpender", "gatewayAdapter"} \cap o.names :
            Sets(n, "remoteNew", rest)
  BY E2ESettersFacts
<1>3. /\ first \in Seq(S) /\ Len(first) = k /\ first[1] = Do("sender")
      /\ first[2] = Do("register") /\ ("default" \in o.names => first[3] = Do("default"))
  <2>1. CASE "default" \in o.names
    BY <2>1
  <2>2. CASE "default" \notin o.names
    BY <2>2
  <2> QED BY <2>1, <2>2
<1>4. k \in Nat /\ k >= 2 /\ ("default" \in o.names => k = 3)
  OBVIOUS
<1> HIDE DEF rest, S, first, k
<1>5. /\ Len(Scripts[o]) \in Nat /\ Len(Scripts[o]) >= k
      /\ \A i \in 1 .. k : Scripts[o][i] = first[i]
      /\ \A i \in 1 .. Len(Scripts[o]) : i > k => Scripts[o][i] \in StepOf({"setNew", "remoteNew"})
      /\ \A n, d : Sets(n, d, rest) =>
            \E i \in 1 .. Len(Scripts[o]) :
               i > k /\ Scripts[o][i].do = d /\ n \in Scripts[o][i].names
  <2>1. Continued(Scripts[o], first, k, rest, {"setNew", "remoteNew"})
    BY <1>1, <1>2, <1>3, Continues
  <2> QED BY <2>1 DEF Continued
<1>6. 1 \in 1 .. k /\ 2 \in 1 .. k /\ ("default" \in o.names => 3 \in 1 .. k)
  BY <1>4
<1> QED BY <1>2, <1>3, <1>5, <1>6 DEF k

LEMMA ConfigScript ==
    ASSUME NEW o \in Asked, o.kind \in {"Config", "none"}
    PROVE  LET s == Scripts[o] IN
           /\ Len(s) \in Nat /\ Len(s) >= 1 /\ s[1] = Do("find")
           /\ \A i \in 1 .. Len(s) : i > 1 => s[i] \in StepOf({"set", "remote"})
           /\ o.b \in Bridges => \A n \in o.names \cap InputFields(o) :
                 \E i \in 1 .. Len(s) : /\ i > 1 /\ n \in s[i].names
                                        /\ s[i].do = IF n \in Remote THEN "remote" ELSE "set"
<1> DEFINE D == {"set", "remote"}
           rest == IF o.b = 0 THEN HyperSetters("set", o.names)
                   ELSE IF o.b = 1 THEN CCIPConfig(o.names)
                   ELSE IF o.b = 2 THEN StargateSetters(o.names)
                   ELSE TokenGatewaySetters(o.names)
<1>1. Scripts[o] = << Do("find") >> \o rest
  BY ScriptOf DEF Script, SetConfig
<1>2. /\ HyperSetters("set", o.names) \in Seq(StepOf(D))
      /\ \A n \in {"stateMachineId", "destinationContract"} \cap o.names :
            Sets(n, "set", HyperSetters("set", o.names))
  BY HyperSettersFacts
<1>3. /\ CCIPConfig(o.names) \in Seq(StepOf(D))
      /\ \A n \in {"chainSelector", "destinationAdapter", "gasLimit", "extraArgs", "feeToken"}
                   \cap o.names : Sets(n, "set", CCIPConfig(o.names))
      /\ \A n \in {"trustedSender", "sourceChainAllowed"} \cap o.names :
            Sets(n, "remote", CCIPConfig(o.names))
  BY CCIPConfigFacts
<1>4. /\ StargateSetters(o.names) \in Seq(StepOf(D))
      /\ \A n \in {"route", "options"} \cap o.names : Sets(n, "set", StargateSetters(o.names))
  BY StargateSettersFacts
<1>5. /\ TokenGatewaySetters(o.names) \in Seq(StepOf(D))
      /\ \A n \in {"stateMachineId", "settlementExecutor", "nativeCost", "relayerFee"}
                   \cap o.names : Sets(n, "set", TokenGatewaySetters(o.names))
  BY TokenGatewaySettersFacts
<1>6. rest \in Seq(StepOf(D))
  BY <1>2, <1>3, <1>4, <1>5
<1>7. ASSUME o.b \in Bridges, NEW n \in o.names \cap InputFields(o)
      PROVE  Sets(n, IF n \in Remote THEN "remote" ELSE "set", rest)
  <2> HIDE DEF D
  <2>1. o.kind = "Config"
    BY <1>7 DEF InputFields
  <2>2. CASE o.b = 0
    BY <1>2, <1>7, <2>1, <2>2 DEF InputFields, Remote
  <2>3. CASE o.b = 1
    BY <1>3, <1>7, <2>1, <2>3 DEF InputFields, Remote
  <2>4. CASE o.b = 2
    BY <1>4, <1>7, <2>1, <2>4 DEF InputFields, Remote
  <2>5. CASE o.b = 3
    BY <1>5, <1>7, <2>1, <2>5 DEF InputFields, Remote
  <2> QED BY <1>7, <2>2, <2>3, <2>4, <2>5 DEF Bridges
<1> DEFINE first == << Do("find") >>
<1>8. first \in Seq({Do("find")}) /\ Len(first) = 1 /\ first[1] = Do("find")
  OBVIOUS
<1>10. Scripts[o] = first \o rest
  BY <1>1
<1> HIDE DEF rest, D, first
<1> DEFINE k == Len(first)
<1>11. k = 1 /\ 1 \in 1 .. k
  BY <1>8
<1>9. /\ Len(Scripts[o]) \in Nat /\ Len(Scripts[o]) >= k
      /\ \A i \in 1 .. k : Scripts[o][i] = first[i]
      /\ \A i \in 1 .. Len(Scripts[o]) : i > k => Scripts[o][i] \in StepOf(D)
      /\ \A n, d : Sets(n, d, rest) =>
            \E i \in 1 .. Len(Scripts[o]) :
               i > k /\ Scripts[o][i].do = d /\ n \in Scripts[o][i].names
  <2>1. first \in Seq({Do("find")})
    BY <1>8
  <2>2. Continued(Scripts[o], first, k, rest, D)
    BY <1>6, <1>10, <2>1, Continues
  <2> HIDE DEF k
  <2> QED BY <2>2 DEF Continued
<1> HIDE DEF k
<1> QED BY <1>7, <1>8, <1>9, <1>11 DEF D

LEMMA OneStepScript ==
    ASSUME NEW o \in Asked
    PROVE  /\ o.kind = "Register" => Len(Scripts[o]) = 1 /\ Scripts[o][1] = Do("register")
           /\ o.kind = "SetDefault" => Len(Scripts[o]) = 1 /\ Scripts[o][1] = Do("default")
  BY ScriptOf DEF Script

\* Preflight reads the status, looks for issues, reads again and builds its rows.
LEMMA PreflightScript ==
    ASSUME NEW o \in Asked, o.kind = "Preflight"
    PROVE  /\ Len(Scripts[o]) = 6
           /\ Scripts[o][1].do = "readDefault" /\ Scripts[o][2].do = "readRest"
           /\ Scripts[o][3].do = "recheck"
           /\ Scripts[o][4].do = "readDefault" /\ Scripts[o][5].do = "readRest"
           /\ Scripts[o][6].do = "rows"
<1>1. Scripts[o] = Preflight
  BY ScriptOf DEF Script
<1> QED BY <1>1 DEF Preflight, Do

-----------------------------------------------------------------------------
(* RouteConfig: what a step leaves alone *)

DomainsOK ==
    /\ DOMAIN pc = Calls /\ DOMAIN op = Calls /\ DOMAIN at = Calls /\ DOMAIN view = Calls
    /\ DOMAIN target = Calls /\ DOMAIN nonce = Calls /\ DOMAIN tries = Calls
    /\ DOMAIN issues = Calls /\ DOMAIN executable = Calls

\* Nothing that belongs to call d changes.
Kept(d) ==
    /\ pc'[d] = pc[d] /\ op'[d] = op[d] /\ at'[d] = at[d] /\ view'[d] = view[d]
    /\ target'[d] = target[d] /\ nonce'[d] = nonce[d] /\ tries'[d] = tries[d]
    /\ issues'[d] = issues[d] /\ executable'[d] = executable[d]
    /\ d \in misread' <=> d \in misread

\* A step of call c.
CallStep(c) == (\E o \in Ops[c] : Begin(c, o)) \/ Run(c) \/ Fail(c)

\* A step of the chains.
ChainStep == \/ \E n \in {"source", "dest"} : Mine(n) \/ Revert(n)
             \/ \E b \in Quoted : QuotesChange(b)

LEMMA StepCases == ASSUME [RouteNext]_routeVars
                   PROVE  \/ \E c \in Calls : CallStep(c)
                          \/ ChainStep
                          \/ UNCHANGED routeVars
  BY DEF RouteNext, CallStep, ChainStep

\* Call c changes only what is its own, the pools and the history of the faults.
LEMMA CallKeeps ==
    ASSUME DomainsOK, NEW c \in Calls, CallStep(c)
    PROVE  /\ DomainsOK' /\ \A d \in Calls \ {c} : Kept(d)
           /\ UNCHANGED <<route, changed, disturbed, mined>> /\ misread \subseteq misread'
<1> USE DEF DomainsOK, Kept, route
<1> DEFINE Goal == /\ DomainsOK' /\ \A d \in Calls \ {c} : Kept(d)
                   /\ UNCHANGED <<route, changed, disturbed, mined>> /\ misread \subseteq misread'
<1>1. ASSUME NEW o \in Ops[c], Begin(c, o) PROVE Goal
  BY <1>1 DEF Begin, locals, history, chains
<1>2. CASE ReadDefault(c)
  BY <1>2 DEF ReadDefault, Advance, locals, history, chains
<1>3. CASE ReadRest(c)
  BY <1>3 DEF ReadRest, Answered, Advance, locals, history, chains
<1>4. CASE Recheck(c)
  BY <1>4 DEF Recheck, Answered, Advance, locals, history, chains
<1>5. CASE Rows(c)
  BY <1>5 DEF Rows, Answered, Advance, locals, history, chains
<1>6. CASE FindAdapter(c)
  BY <1>6 DEF FindAdapter, Advance, locals, history, chains
<1>7. CASE FindHyperbridge(c)
  BY <1>7 DEF FindHyperbridge, Advance, locals, history, chains
<1>8. CASE FindSender(c)
  BY <1>8 DEF FindSender, Advance, locals, history, chains
<1>9. CASE SkipStep(c)
  BY <1>9 DEF SkipStep, Advance, locals, history, chains
<1>10. CASE PickNonce(c)
  BY <1>10 DEF PickNonce, locals, history, chains
<1>11. CASE Accepted(c)
  BY <1>11 DEF Accepted, Advance, locals, history, chains
<1>12. CASE Replaces(c)
  BY <1>12 DEF Replaces, Advance, locals, history, chains
<1>13. CASE NonceTaken(c)
  BY <1>13 DEF NonceTaken, Abandon, locals, history, chains
<1>14. CASE Refuse(c)
  BY <1>14 DEF Refuse, Abandon, locals, history, chains
<1>15. CASE Finish(c)
  BY <1>15 DEF Finish, locals, history, chains
<1>16. CASE Fail(c)
  BY <1>16 DEF Fail, Abandon, locals, history, chains
<1> QED BY <1>1, <1>2, <1>3, <1>4, <1>5, <1>6, <1>7, <1>8, <1>9, <1>10, <1>11, <1>12, <1>13,
           <1>14, <1>15, <1>16 DEF CallStep, Run

\* The chains change no call.
LEMMA ChainKeeps == ASSUME DomainsOK, ChainStep \/ UNCHANGED routeVars
                    PROVE  DomainsOK' /\ \A d \in Calls : Kept(d)
  BY DEF ChainStep, Mine, Revert, QuotesChange, locals, DomainsOK, Kept, routeVars, history

\* A status that was read without an error is what the route is.
LEMMA ReadStatus ==
    ASSUME DomainsOK, NEW c \in Calls, ReadRest(c)
    PROVE  /\ c \notin misread' => view'[c] = StatusRead(view[c].default, {})
           /\ \E lost : view'[c] = StatusRead(view[c].default, lost)
<1>1. PICK lost \in Outages \cup {{}} :
         /\ Answered(c, lost = {})
         /\ view' = [view EXCEPT ![c] = StatusRead(@.default, lost)]
  BY DEF ReadRest
<1>2. view'[c] = StatusRead(view[c].default, lost)
  BY <1>1 DEF DomainsOK
<1>3. c \notin misread' => lost = {}
  BY <1>1 DEF Answered
<1> QED BY <1>2, <1>3

\* A read that fails shows no adapter that there is not.
LEMMA StatusAdapters ==
    ASSUME adapter \in [Bridges -> Adapters \cup {Zero}], NEW d, NEW lost
    PROVE  LET v == StatusRead(d, lost) IN
           /\ v.default = d /\ v.adapter \in [Bridges -> Adapters \cup {Zero}]
           /\ \A b \in Bridges : v.adapter[b] # Zero => v.adapter[b] = adapter[b]
           /\ lost = {} => v.adapter = adapter
<1> DEFINE a == [b \in Bridges |-> IF <<"getAdapter", b>> \notin lost THEN adapter[b] ELSE Zero]
<1>1. StatusRead(d, lost).default = d /\ StatusRead(d, lost).adapter = a
  BY DEF StatusRead
<1>2. a \in [Bridges -> Adapters \cup {Zero}] /\ \A b \in Bridges : a[b] # Zero => a[b] = adapter[b]
  OBVIOUS
<1>3. lost = {} => a = adapter
  OBVIOUS
<1> QED BY <1>1, <1>2, <1>3

-----------------------------------------------------------------------------
(* RouteConfig: Preflight *)

\* What GetStatus would return now.
NowView == StatusRead(default, {})

\* What Preflight would find out now.
NowIssues == RouteIssues(NowView, TRUE)
NowExecutable == \E b \in 0 .. 2 : b = default /\ RowReady(NowView, b, TRUE)

\* A Preflight that runs while nothing changes and no read fails has seen the route as it is, as
\* far as it has read it.
Seen(c) ==
    /\ at[c] \in {2, 3, 4, 5, 6, 7} => view[c].default = default
    /\ at[c] \in {3, 4, 6, 7} => view[c] = NowView
    /\ at[c] \in {4, 5, 6, 7} => (issues[c] <=> NowIssues)
    /\ at[c] = 7 => (executable[c] <=> NowExecutable)

Agrees(c) == view[c].default \in 0 .. 2 => (executable[c] <=> ~issues[c])

PreflightOK(c) ==
    /\ pc[c] # "idle" => op[c] \in Ops[c]
    /\ pc[c] \in {"running", "sending", "ok"} /\ op[c].kind = "Preflight" =>
          /\ pc[c] # "sending" /\ at[c] \in 1 .. 7
          /\ c \notin changed \cup misread => IF pc[c] = "running" THEN Seen(c) ELSE Agrees(c)

PreflightInv == DomainsOK /\ \A c \in Calls : PreflightOK(c)

LEMMA PreflightKept ==
    ASSUME NEW c, PreflightOK(c), Kept(c),
           \/ UNCHANGED <<route, changed>>
           \/ changed' = changed \cup Reading /\ c \in Calls
    PROVE  PreflightOK(c)'
<1>1. CASE UNCHANGED <<route, changed>>
  <2>1. NowView' = NowView
    BY <1>1 DEF NowView, StatusRead, Configured, route
  <2>3. NowIssues' <=> NowIssues
    BY <1>1, <2>1 DEF NowIssues, RouteIssues, FeeQuoteHealthy, route
  <2>4. NowExecutable' <=> NowExecutable
    BY <1>1, <2>1 DEF NowExecutable, RowReady, FeeQuoteHealthy, route
  <2>5. Seen(c) => Seen(c)'
    BY <1>1, <2>1, <2>3, <2>4 DEF Seen, Kept, route
  <2>6. Agrees(c) => Agrees(c)'
    BY DEF Agrees, Kept
  <2> QED BY <1>1, <2>5, <2>6 DEF PreflightOK, Kept
<1>2. CASE changed' = changed \cup Reading /\ c \in Calls
  <2>1. Agrees(c) => Agrees(c)'
    BY DEF Agrees, Kept
  <2> QED BY <1>2, <2>1 DEF PreflightOK, Kept, Reading
<1> QED BY <1>1, <1>2

\* A call that was begun keeps its request and never is idle again.
LEMMA OpKept == ASSUME DomainsOK, NEW c \in Calls, Run(c) \/ Fail(c)
                PROVE  op' = op /\ pc'[c] # "idle" /\ pc[c] \in {"running", "sending"}
<1> USE DEF DomainsOK
<1>1. CASE ReadDefault(c) \/ ReadRest(c) \/ Recheck(c) \/ Rows(c)
  BY <1>1 DEF ReadDefault, ReadRest, Recheck, Rows, AtStep
<1>2. CASE FindAdapter(c) \/ FindHyperbridge(c) \/ FindSender(c)
  BY <1>2 DEF FindAdapter, FindHyperbridge, FindSender, AtStep
<1>3. CASE SkipStep(c) \/ PickNonce(c) \/ Accepted(c) \/ Replaces(c)
  BY <1>3 DEF SkipStep, PickNonce, Accepted, Replaces, Transacting
<1>4. CASE NonceTaken(c) \/ Finish(c) \/ Fail(c)
  BY <1>4 DEF NonceTaken, Finish, Fail, Abandon
<1>5. CASE Refuse(c)
  <2>1. pc[c] = "running"
    BY <1>5 DEF Refuse, Refused, AtStep, Transacting
  <2> QED BY <1>5, <2>1 DEF Refuse, Abandon
<1> QED BY <1>1, <1>2, <1>3, <1>4, <1>5 DEF Run

\* The steps of a Preflight.
LEMMA PreflightOwn ==
    ASSUME PreflightInv, NEW c \in Calls, CallStep(c) PROVE PreflightOK(c)'
<1>1. ASSUME NEW o \in Ops[c], Begin(c, o) PROVE PreflightOK(c)'
  <2>1. pc'[c] = "running" /\ op'[c] = o /\ at'[c] = 1
    BY <1>1 DEF Begin, PreflightInv, DomainsOK
  <2> QED BY <2>1 DEF PreflightOK, Seen
<1>2. ASSUME Run(c) \/ Fail(c), op[c].kind # "Preflight" PROVE PreflightOK(c)'
  BY <1>2, OpKept DEF PreflightInv, PreflightOK
<1>3. ASSUME Run(c) \/ Fail(c), op[c].kind = "Preflight" PROVE PreflightOK(c)'
  <2>1. /\ op' = op /\ pc'[c] # "idle" /\ pc[c] = "running" /\ at[c] \in 1 .. 7
        /\ op[c] \in Ops[c] /\ (c \notin changed \cup misread => Seen(c))
    BY <1>3, OpKept DEF PreflightInv, PreflightOK
  <2>2. op[c] \in Asked
    BY <2>1, AskedOp
  <2>3. /\ Len(Scripts[op[c]]) = 6
        /\ Step(c).do = IF at[c] \in {1, 4} THEN "readDefault"
                        ELSE IF at[c] \in {2, 5} THEN "readRest"
                        ELSE IF at[c] = 3 THEN "recheck" ELSE IF at[c] = 6 THEN "rows"
                        ELSE Step(c).do
    BY <1>3, <2>1, <2>2, PreflightScript DEF Step
  <2>4. UNCHANGED <<route, changed>> /\ misread \subseteq misread'
    BY <1>3, CallKeeps DEF PreflightInv, CallStep, route
  <2>n. NowView' = NowView
    BY <2>4 DEF NowView, StatusRead, Configured, route
  <2>5. NowView' = NowView /\ (NowIssues' <=> NowIssues) /\ (NowExecutable' <=> NowExecutable)
    BY <2>4, <2>n DEF NowIssues, NowExecutable, RouteIssues, RowReady, FeeQuoteHealthy, route
  <2>g. ASSUME pc' = pc, at'[c] \in 1 .. 7, c \notin changed \cup misread' => Seen(c)'
        PROVE  PreflightOK(c)'
    BY <2>1, <2>4, <2>g DEF PreflightOK
  <2>m. c \notin changed \cup misread' => Seen(c)
    BY <2>1, <2>4
  <2>6. CASE ReadDefault(c)
    <3>1. at[c] \in {1, 4} /\ at'[c] = at[c] + 1 /\ view'[c].default = default /\ pc' = pc
          /\ issues' = issues /\ executable' = executable
      BY <2>1, <2>3, <2>6 DEF ReadDefault, AtStep, Advance, PreflightInv, DomainsOK, NoView
    <3>2. c \notin changed \cup misread' => Seen(c)'
      BY <2>m, <2>4, <2>5, <3>1 DEF Seen, route
    <3> QED BY <2>g, <3>1, <3>2
  <2>7. CASE ReadRest(c)
    <3>1. at[c] \in {2, 5} /\ at'[c] = at[c] + 1 /\ pc' = pc
          /\ issues' = issues /\ executable' = executable
      BY <2>1, <2>3, <2>7 DEF ReadRest, AtStep, Advance, PreflightInv, DomainsOK
    <3>2. c \notin misread' => view'[c] = StatusRead(view[c].default, {})
      BY <2>7, ReadStatus DEF PreflightInv
    <3>3. NowView.default = default
      BY DEF NowView, StatusRead
    <3>4. c \notin changed \cup misread' => view'[c] = NowView /\ view'[c].default = default
      BY <2>m, <3>1, <3>2, <3>3 DEF NowView, Seen
    <3>5. c \notin changed \cup misread' => Seen(c)'
      BY <2>m, <2>4, <2>5, <3>1, <3>4 DEF Seen, route
    <3> QED BY <2>g, <3>1, <3>5
  <2>8. CASE Recheck(c)
    <3>1. at[c] = 3 /\ at'[c] = 4 /\ pc' = pc /\ view' = view /\ executable' = executable
      BY <2>1, <2>3, <2>8 DEF Recheck, AtStep, Advance, PreflightInv, DomainsOK
    <3>2. PICK up \in BOOLEAN : Answered(c, up) /\ issues'[c] = RouteIssues(view[c], up)
      BY <2>8 DEF Recheck, PreflightInv, DomainsOK
    <3>3. c \notin misread' => up = TRUE
      BY <3>2 DEF Answered
    <3>4. c \notin changed \cup misread' => (issues'[c] <=> NowIssues)
      BY <2>m, <3>1, <3>2, <3>3 DEF Seen, NowIssues
    <3>5. c \notin changed \cup misread' => Seen(c)'
      BY <2>m, <2>4, <2>5, <3>1, <3>4 DEF Seen, route
    <3> QED BY <2>g, <3>1, <3>5
  <2>9. CASE Rows(c)
    <3>1. at[c] = 6 /\ at'[c] = 7 /\ pc' = pc /\ view' = view /\ issues' = issues
      BY <2>1, <2>3, <2>9 DEF Rows, AtStep, Advance, PreflightInv, DomainsOK
    <3>2. PICK up \in BOOLEAN :
             /\ Answered(c, up)
             /\ executable'[c] = \E b \in 0 .. 2 : b = view[c].default /\ RowReady(view[c], b, up)
      BY <2>9 DEF Rows, PreflightInv, DomainsOK
    <3>3. c \notin misread' => up = TRUE
      BY <3>2 DEF Answered
    <3>4. c \notin changed \cup misread' => view[c] = NowView /\ view[c].default = default
      BY <2>m, <3>1 DEF Seen
    <3>5. c \notin changed \cup misread' => (executable'[c] <=> NowExecutable)
      BY <3>2, <3>3, <3>4 DEF NowExecutable
    <3>6. c \notin changed \cup misread' => Seen(c)'
      BY <2>m, <2>4, <2>5, <3>1, <3>4, <3>5 DEF Seen, route
    <3> QED BY <2>g, <3>1, <3>6
  <2>10. CASE Finish(c)
    <3>1. at[c] = 7 /\ pc'[c] = "ok" /\ UNCHANGED <<at, view, issues, executable>>
      BY <2>1, <2>3, <2>10 DEF Finish, PreflightInv, DomainsOK, locals
    <3>2. c \notin changed \cup misread => Agrees(c)
      <4> SUFFICES ASSUME c \notin changed \cup misread, default \in 0 .. 2
                   PROVE  executable[c] <=> ~issues[c]
        BY <2>1, <3>1 DEF Agrees, Seen
      <4>1. executable[c] <=> RowReady(NowView, default, TRUE)
        BY <2>1, <3>1 DEF Seen, NowExecutable
      <4>2. issues[c] <=> RouteIssues(NowView, TRUE)
        BY <2>1, <3>1 DEF Seen, NowIssues
      <4>3. RowReady(NowView, default, TRUE) <=> ~RouteIssues(NowView, TRUE)
        BY DEF RowReady, RouteIssues, NowView, StatusRead, Bridges
      <4> QED BY <4>1, <4>2, <4>3
    <3> QED BY <2>1, <2>4, <3>1, <3>2 DEF PreflightOK, Agrees
  <2>11. ASSUME \/ FindAdapter(c) \/ FindHyperbridge(c) \/ FindSender(c) \/ SkipStep(c)
                \/ PickNonce(c) \/ Accepted(c) \/ Replaces(c)
         PROVE FALSE
    BY <2>1, <2>3, <2>11 DEF FindAdapter, FindHyperbridge, FindSender, SkipStep, PickNonce,
                             Accepted, Replaces, Transacting, AtStep, Setting
  <2>12. ASSUME NonceTaken(c) \/ Refuse(c) \/ Fail(c) PROVE PreflightOK(c)'
    <3>1. pc'[c] = "failed"
      BY <2>1, <2>12 DEF NonceTaken, Refuse, Fail, Abandon, PreflightInv, DomainsOK
    <3> QED BY <2>1, <3>1 DEF PreflightOK
  <2> QED BY <1>3, <2>6, <2>7, <2>8, <2>9, <2>10, <2>11, <2>12 DEF Run
<1> QED BY <1>1, <1>2, <1>3 DEF CallStep

LEMMA PreflightInvariance == RouteSpec => []PreflightInv
<1>1. RouteInit => PreflightInv
  BY DEF RouteInit, PreflightInv, PreflightOK, DomainsOK
<1>2. PreflightInv /\ [RouteNext]_routeVars => PreflightInv'
  <2> SUFFICES ASSUME PreflightInv, [RouteNext]_routeVars PROVE PreflightInv'
    OBVIOUS
  <2>1. ASSUME NEW c \in Calls, CallStep(c) PROVE PreflightInv'
    <3>1. DomainsOK' /\ \A d \in Calls \ {c} : Kept(d) /\ UNCHANGED <<route, changed>>
      BY <2>1, CallKeeps DEF PreflightInv
    <3>2. \A d \in Calls \ {c} : PreflightOK(d)'
      BY <3>1, PreflightKept DEF PreflightInv
    <3>3. PreflightOK(c)'
      BY <2>1, PreflightOwn
    <3> QED BY <3>1, <3>2, <3>3 DEF PreflightInv
  <2>2. ASSUME ChainStep \/ UNCHANGED routeVars PROVE PreflightInv'
    <3>1. DomainsOK' /\ \A d \in Calls : Kept(d)
      BY <2>2, ChainKeeps DEF PreflightInv
    <3>2. UNCHANGED <<route, changed>> \/ changed' = changed \cup Reading
      BY <2>2 DEF ChainStep, Mine, Revert, QuotesChange, routeVars, history, route
    <3>3. \A d \in Calls : PreflightOK(d)'
      BY <3>1, <3>2, PreflightKept DEF PreflightInv
    <3> QED BY <3>1, <3>3 DEF PreflightInv
  <2> QED BY <2>1, <2>2, StepCases
<1> QED BY <1>1, <1>2, PTL DEF RouteSpec

(* The two halves of a Preflight agree unless something changed between them: *)
(* the rows' policyExecutable and RecheckRoute's issues are built from two    *)
(* statuses, read at different times.                                         *)
THEOREM PreflightCorrect == RouteSpec => []PreflightAgrees
<1>1. PreflightInv => PreflightAgrees
  BY DEF PreflightInv, PreflightOK, PreflightAgrees, Agrees
<1> QED BY <1>1, PreflightInvariance, PTL

-----------------------------------------------------------------------------
(* RouteConfig: types *)

\* Where in the script of o a step d can stand.
Place(o, i, d) ==
    CASE d = "register" -> <<o.kind, i>> \in {<<"Register", 1>>, <<"AutoFix", 3>>, <<"E2E", 2>>}
      [] d = "default" -> \/ <<o.kind, i>> \in {<<"SetDefault", 1>>, <<"AutoFix", 4>>}
                          \/ o.kind = "E2E" /\ i = 3 /\ "default" \in o.names
      [] d = "find" -> o.kind \in {"Config", "none"} /\ i = 1
      [] d = "sender" -> o.kind = "E2E" /\ i = 1
      [] d = "hyperbridge" -> o.kind = "AutoFix" /\ i = 5
      [] d = "readDefault" -> o.kind = "Preflight" \/ (o.kind = "AutoFix" /\ i = 1)
      [] d = "readRest" -> o.kind = "Preflight" \/ (o.kind = "AutoFix" /\ i = 2)
      [] d \in {"recheck", "rows"} -> o.kind = "Preflight"
      [] d = "setHyper" -> o.kind = "AutoFix" /\ i > 5
      [] d \in {"setNew", "remoteNew"} ->
            o.kind = "E2E" /\ i > 2 /\ ("default" \in o.names => i > 3)
      [] d \in {"set", "remote"} -> o.kind \in {"Config", "none"} /\ i > 1
      [] OTHER -> FALSE

LEMMA StepPlaces ==
    ASSUME NEW c \in Calls, NEW o \in Ops[c], NEW i \in 1 .. Len(Scripts[o])
    PROVE  Scripts[o][i].names \subseteq Names /\ Place(o, i, Scripts[o][i].do)
<1>1. o \in Asked /\ o.kind \in Kinds
  BY AskedOp
<1>2. CASE o.kind = "Preflight"
  <2>1. /\ Scripts[o] = Preflight /\ Len(Preflight) = 6
        /\ Preflight[1] = Do("readDefault") /\ Preflight[2] = Do("readRest")
        /\ Preflight[3] = Do("recheck") /\ Preflight[4] = Do("readDefault")
        /\ Preflight[5] = Do("readRest") /\ Preflight[6] = Do("rows")
    BY <1>1, <1>2, ScriptOf DEF Script, Preflight
  <2>2. Scripts[o][i] \in {Do("readDefault"), Do("readRest"), Do("recheck"), Do("rows")}
    BY <2>1
  <2> QED BY <1>2, <2>2 DEF Place, Do
<1>3. CASE o.kind = "Register"
  <2>1. Len(Scripts[o]) = 1 /\ Scripts[o][1] = Do("register")
    BY <1>1, <1>3, OneStepScript
  <2>2. i = 1
    BY <2>1
  <2> QED BY <1>3, <2>1, <2>2 DEF Place, Do
<1>7. CASE o.kind = "SetDefault"
  <2>1. Len(Scripts[o]) = 1 /\ Scripts[o][1] = Do("default")
    BY <1>1, <1>7, OneStepScript
  <2>2. i = 1
    BY <2>1
  <2> QED BY <1>7, <2>1, <2>2 DEF Place, Do
<1>4. CASE o.kind = "AutoFix"
  <2>1. /\ Len(Scripts[o]) \in Nat
        /\ Scripts[o][1] = Do("readDefault") /\ Scripts[o][2] = Do("readRest")
        /\ Scripts[o][3] = Do("register") /\ Scripts[o][4] = Do("default")
        /\ Scripts[o][5] = Do("hyperbridge")
        /\ i > 5 => Scripts[o][i] \in StepOf({"setHyper"})
    BY <1>1, <1>4, AutoFixScript
  <2>2. CASE i \in {1, 2, 3, 4, 5}
    BY <1>4, <2>1, <2>2 DEF Do, Place
  <2>3. CASE i > 5
    <3>1. Scripts[o][i].do = "setHyper" /\ Scripts[o][i].names \subseteq Names
      BY <2>1, <2>3 DEF StepOf
    <3> QED BY <1>4, <2>3, <3>1 DEF Place
  <2> QED BY <2>2, <2>3
<1>5. CASE o.kind = "E2E"
  <2> DEFINE k == IF "default" \in o.names THEN 3 ELSE 2
  <2>1. /\ Len(Scripts[o]) \in Nat /\ Scripts[o][1] = Do("sender") /\ Scripts[o][2] = Do("register")
        /\ "default" \in o.names => Scripts[o][3] = Do("default")
        /\ i > k => Scripts[o][i] \in StepOf({"setNew", "remoteNew"})
    BY <1>1, <1>5, E2EScript
  <2>2. CASE i \in {1, 2} \/ (i = 3 /\ "default" \in o.names)
    BY <1>5, <2>1, <2>2 DEF Do, Place
  <2>3. CASE i > k
    <3>1. Scripts[o][i].do \in {"setNew", "remoteNew"} /\ Scripts[o][i].names \subseteq Names
      BY <2>1, <2>3 DEF StepOf
    <3>2. i > 2 /\ ("default" \in o.names => i > 3)
      BY <2>3
    <3> QED BY <1>5, <3>1, <3>2 DEF Place
  <2> QED BY <2>2, <2>3
<1>6. CASE o.kind \in {"Config", "none"}
  <2>1. /\ Len(Scripts[o]) \in Nat /\ Scripts[o][1] = Do("find")
        /\ i > 1 => Scripts[o][i] \in StepOf({"set", "remote"})
    BY <1>1, <1>6, ConfigScript
  <2>2. CASE i = 1
    BY <1>6, <2>1, <2>2 DEF Do, Place
  <2>3. CASE i > 1
    <3>1. Scripts[o][i].do \in {"set", "remote"} /\ Scripts[o][i].names \subseteq Names
      BY <2>1, <2>3 DEF StepOf
    <3> QED BY <1>6, <2>3, <3>1 DEF Place
  <2> QED BY <2>2, <2>3
<1> QED BY <1>1, <1>2, <1>3, <1>4, <1>5, <1>6, <1>7 DEF Kinds

Side == {"source", "dest"}

\* Transactions; a registration names an adapter.
Txs == { tx \in [kind : {"adapter", "default", "set"}, b : Bridges,
                 addr : Adapters \cup {Zero, Receiver}, names : SUBSET Names, by : Calls] :
         tx.kind = "adapter" => tx.addr # Zero /\ tx.addr # Receiver }

\* The call is at a step that sends a transaction.
InTx(c) == at[c] <= Len(Scripts[op[c]]) /\ Step(c).do \in {"register", "default"} \cup Setting

CallTypes(c) ==
    /\ pc[c] \in {"idle", "running", "sending", "ok", "failed"}
    /\ pc[c] # "idle" => op[c] \in Ops[c]
    /\ at[c] \in Nat /\ nonce[c] \in Nat /\ tries[c] \in Nat
    /\ view[c].default \in Bridges /\ view[c].adapter \in [Bridges -> Adapters \cup {Zero}]
    /\ target[c] \in Adapters \cup {Zero}
    /\ pc[c] \in {"running", "sending", "ok"} => at[c] >= 1
    /\ pc[c] = "sending" => InTx(c)
    /\ tries[c] # 0 => pc[c] \in {"running", "sending"} /\ InTx(c)
    /\ pc[c] \in {"running", "sending", "ok"} /\ op[c].kind = "E2E" /\ at[c] >= 2
          => target[c] # Zero

PoolTypes ==
    /\ pool \in [Side -> Seq(Txs)] /\ mined \in [Side -> Nat]
    /\ \A n \in Side : \A i \in 1 .. Len(pool[n]) : pc[pool[n][i].by] # "idle"

RouteTypes ==
    /\ DomainsOK
    /\ adapter \in [Bridges -> Adapters \cup {Zero}] /\ default \in Bridges
    /\ PoolTypes
    /\ \A c \in Calls : CallTypes(c)

\* The transaction of a call.
LEMMA TxType ==
    ASSUME NEW c \in Calls, CallTypes(c), pc[c] \in {"running", "sending"}, InTx(c)
    PROVE  /\ TxOf(c) \in Txs /\ TxOf(c).by = c
           /\ ChainOf(TxOf(c)) \in Side /\ Bridge(c) \in Bridges
<1> DEFINE o == op[c]
           i == at[c]
<1>1. /\ o \in Ops[c] /\ i \in 1 .. Len(Scripts[o]) /\ Step(c) = Scripts[o][i]
  BY DEF CallTypes, InTx, Step
<1>2. Step(c).names \subseteq Names /\ Place(o, i, Step(c).do)
  BY <1>1, StepPlaces
<1>3. /\ o.kind \in Kinds /\ o.b \in Bridges \cup {Unset} /\ o.addr \in Adapters \cup {Zero}
      /\ (o.b = Unset => o.kind = "AutoFix") /\ (o.kind = "Register" => o.addr # Zero)
  BY <1>1, AskedOp
<1>4. Bridge(c) \in Bridges
  BY <1>3 DEF Bridge, CallTypes
<1>5. Zero \notin Adapters /\ Receiver \notin Adapters
  BY OthersAssumption DEF Adapters, Zero, Receiver
<1>6. ActiveContract(Bridge(c)) \in Adapters
  BY DEF ActiveContract, Adapters
<1>7. 2 \in Bridges /\ 0 \in Bridges
  BY DEF Bridges
<1>8. CASE Step(c).do = "register"
  <2> DEFINE b == IF op[c].kind = "E2E" THEN 2 ELSE Bridge(c)
             a == IF op[c].kind = "AutoFix" THEN ActiveContract(Bridge(c))
                  ELSE IF op[c].kind = "E2E" THEN target[c] ELSE op[c].addr
  <2>1. TxOf(c) = [kind |-> "adapter", b |-> b, addr |-> a, names |-> {}, by |-> c]
    BY <1>8 DEF TxOf
  <2>2. o.kind \in {"Register", "AutoFix", "E2E"} /\ (o.kind = "E2E" => i = 2)
    BY <1>2, <1>8 DEF Place
  <2>3. a \in Adapters
    BY <1>3, <1>6, <2>2 DEF CallTypes
  <2>4. b \in Bridges
    BY <1>4, <1>7
  <2> HIDE DEF a, b
  <2> QED BY <1>4, <1>5, <2>1, <2>3, <2>4 DEF Txs, ChainOf, Side
<1>9. CASE Step(c).do = "default"
  <2> DEFINE b == IF op[c].kind = "E2E" THEN 2 ELSE Bridge(c)
  <2>1. TxOf(c) = [kind |-> "default", b |-> b, addr |-> Zero, names |-> {}, by |-> c]
    BY <1>9 DEF TxOf
  <2>4. b \in Bridges
    BY <1>4, <1>7
  <2> HIDE DEF b
  <2> QED BY <1>4, <1>5, <2>1, <2>4 DEF Txs, ChainOf, Side
<1>10. CASE Step(c).do \in Setting
  <2> DEFINE a == IF Step(c).do \in {"remote", "remoteNew"} THEN Receiver ELSE target[c]
  <2>1. TxOf(c) = [kind |-> "set", b |-> 0, addr |-> a, names |-> Step(c).names, by |-> c]
    BY <1>10 DEF TxOf, Setting
  <2>2. a \in Adapters \cup {Zero, Receiver}
    BY DEF CallTypes
  <2> HIDE DEF a
  <2> QED BY <1>2, <1>4, <1>7, <2>1, <2>2 DEF Txs, ChainOf, Side
<1> QED BY <1>8, <1>9, <1>10 DEF InTx

LEMMA TypesKept == ASSUME NEW d, CallTypes(d), Kept(d) PROVE CallTypes(d)'
  BY DEF CallTypes, Kept, InTx, Step

\* What a call does to the pools: nothing, or its transaction is put at the end
\* of one of them, or in the place of another one.
Appended(c, n) ==
    /\ nonce[c] = mined[n] + Len(pool[n])
    /\ pool' = [pool EXCEPT ![n] = Append(@, TxOf(c))] /\ spoilt' = spoilt
Replaced(c, n, i) ==
    /\ i = nonce[c] - mined[n] + 1 /\ i \in 1 .. Len(pool[n])
    /\ pool' = [pool EXCEPT ![n] = [@ EXCEPT ![i] = TxOf(c)]]
    /\ spoilt' = spoilt \cup {pool[n][i].by}
Sends(c) ==
    /\ pc[c] = "sending" /\ pc'[c] = "running" /\ op' = op /\ at'[c] = at[c] + 1
    /\ view' = view /\ target' = target /\ tries'[c] = 0 /\ nonce'[c] = 0
    /\ LET n == ChainOf(TxOf(c)) IN Appended(c, n) \/ \E i \in Nat : Replaced(c, n, i)

LEMMA PoolCases ==
    ASSUME RouteTypes, NEW c \in Calls, CallStep(c)
    PROVE  \/ UNCHANGED <<pool, spoilt>> /\ ~Accepted(c) /\ ~Replaces(c)
           \/ Sends(c) /\ (Accepted(c) \/ Replaces(c))
<1>1. ASSUME Accepted(c) PROVE Sends(c)
  BY <1>1 DEF Accepted, Sends, Appended, Advance, history, RouteTypes, DomainsOK
<1>2. ASSUME Replaces(c) PROVE Sends(c)
  <2> DEFINE n == ChainOf(TxOf(c))
             i == nonce[c] - mined[n] + 1
  <2>1. Replaced(c, n, i) /\ i \in Nat
    BY <1>2 DEF Replaces, Replaced
  <2> QED BY <1>2, <2>1 DEF Replaces, Sends, Advance, RouteTypes, DomainsOK
<1>3. ASSUME ~Accepted(c), ~Replaces(c) PROVE UNCHANGED <<pool, spoilt>>
  BY <1>3 DEF CallStep, Begin, Run, Fail, ReadDefault, ReadRest, Recheck, Rows, FindAdapter,
              FindHyperbridge, FindSender, SkipStep, PickNonce, NonceTaken, Refuse, Finish,
              chains, history
<1> QED BY <1>1, <1>2, <1>3

LEMMA SentPool ==
    ASSUME RouteTypes, NEW c \in Calls, Sends(c)
    PROVE  /\ pool' \in [Side -> Seq(Txs)]
           /\ \A n \in Side : \A i \in 1 .. Len(pool'[n]) :
                 \/ i \in 1 .. Len(pool[n]) /\ pool'[n][i] = pool[n][i]
                 \/ pool'[n][i] = TxOf(c)
<1> DEFINE n == ChainOf(TxOf(c))
<1>1. TxOf(c) \in Txs /\ n \in Side /\ pool[n] \in Seq(Txs) /\ DOMAIN pool = Side
  BY TxType DEF RouteTypes, PoolTypes, CallTypes, Sends
<1> DEFINE p == pool[n]
           x == TxOf(c)
           new == pool'[n]
<1>2. /\ new \in Seq(Txs)
      /\ \A i \in 1 .. Len(new) : (i \in 1 .. Len(p) /\ new[i] = p[i]) \/ new[i] = x
      /\ \A m \in Side \ {n} : pool'[m] = pool[m]
      /\ DOMAIN pool' = Side
  <2>1. CASE Appended(c, n)
    <3>1. new = Append(p, x) /\ DOMAIN pool' = Side /\ \A m \in Side \ {n} : pool'[m] = pool[m]
      BY <1>1, <2>1 DEF Appended
    <3>2. p \in Seq(Txs) /\ x \in Txs
      BY <1>1
    <3> HIDE DEF p, x, new
    <3> QED BY <3>1, <3>2
  <2>2. ASSUME NEW j \in Nat, Replaced(c, n, j)
        PROVE  /\ new \in Seq(Txs)
               /\ \A i \in 1 .. Len(new) : (i \in 1 .. Len(p) /\ new[i] = p[i]) \/ new[i] = x
               /\ \A m \in Side \ {n} : pool'[m] = pool[m]
               /\ DOMAIN pool' = Side
    <3>1. /\ new = [p EXCEPT ![j] = x] /\ j \in 1 .. Len(p)
          /\ DOMAIN pool' = Side /\ \A m \in Side \ {n} : pool'[m] = pool[m]
      BY <1>1, <2>2 DEF Replaced
    <3>2. p \in Seq(Txs) /\ x \in Txs
      BY <1>1
    <3> HIDE DEF p, x, new
    <3> QED BY <3>1, <3>2
  <2> QED BY <2>1, <2>2 DEF Sends
<1>3. \A m \in Side \ {n} : pool[m] \in Seq(Txs)
  BY DEF RouteTypes, PoolTypes
<1>4. pool' \in [Side -> Seq(Txs)]
  <2>1. \A m \in Side : pool'[m] \in Seq(Txs)
    BY <1>2, <1>3
  <2>2. pool' = [m \in Side |-> pool'[m]]
    BY <1>2 DEF Sends, Appended, Replaced, RouteTypes, PoolTypes
  <2> QED BY <2>1, <2>2
<1>5. ASSUME NEW m \in Side, NEW i \in 1 .. Len(pool'[m])
      PROVE  (i \in 1 .. Len(pool[m]) /\ pool'[m][i] = pool[m][i]) \/ pool'[m][i] = TxOf(c)
  <2>1. CASE m = n
    BY <1>2, <1>5, <2>1
  <2>2. CASE m # n
    BY <1>2, <1>5, <2>2
  <2> QED BY <2>1, <2>2
<1> QED BY <1>4, <1>5

\* A call that is at a step of its script.
LEMMA AtPlace ==
    ASSUME NEW c \in Calls, CallTypes(c), pc[c] \in {"running", "sending"},
           at[c] <= Len(Scripts[op[c]])
    PROVE  /\ op[c] \in Ops[c] /\ op[c].kind \in Kinds
           /\ Place(op[c], at[c], Step(c).do) /\ (op[c].kind # "AutoFix" => op[c].b \in Bridges)
           /\ Step(c).do \notin {"register", "default"} \cup Setting => tries[c] = 0
<1>1. op[c] \in Ops[c] /\ at[c] \in 1 .. Len(Scripts[op[c]])
  BY DEF CallTypes
<1>2. op[c].kind \in Kinds /\ (op[c].kind # "AutoFix" => op[c].b \in Bridges)
  BY <1>1, AskedOp
<1>3. Place(op[c], at[c], Step(c).do)
  BY <1>1, StepPlaces DEF Step
<1> QED BY <1>1, <1>2, <1>3 DEF CallTypes, InTx

LEMMA ScriptLength == ASSUME NEW c \in Calls, NEW o \in Ops[c]
                      PROVE  Len(Scripts[o]) \in Nat
<1>1. o \in Asked /\ o.kind \in Kinds
  BY AskedOp
<1> QED BY <1>1, PreflightScript, OneStepScript, AutoFixScript, E2EScript, ConfigScript DEF Kinds

LEMMA AbandonTypes == ASSUME DomainsOK, NEW c \in Calls, CallTypes(c), pc[c] # "idle", Abandon(c)
                      PROVE  CallTypes(c)'
<1>1. /\ pc'[c] = "failed" /\ at'[c] = 0 /\ view'[c] = NoView /\ target'[c] = Zero
      /\ nonce'[c] = 0 /\ tries'[c] = 0 /\ op' = op
  BY DEF Abandon, DomainsOK
<1>2. NoView.default \in Bridges /\ NoView.adapter \in [Bridges -> Adapters \cup {Zero}]
  BY DEF NoView, Bridges
<1> QED BY <1>1, <1>2 DEF CallTypes

LEMMA TypesOwn == ASSUME RouteTypes, NEW c \in Calls, CallStep(c) PROVE CallTypes(c)'
<1> DEFINE Same == UNCHANGED <<op, view, target, nonce, tries>>
<1>d. DomainsOK /\ CallTypes(c) /\ adapter \in [Bridges -> Adapters \cup {Zero}] /\ default \in Bridges
  BY DEF RouteTypes
<1>b. 0 \in Bridges /\ 2 \in Bridges /\ NoView.default \in Bridges
      /\ NoView.adapter \in [Bridges -> Adapters \cup {Zero}]
  BY DEF Bridges, NoView
<1>1. ASSUME NEW o \in Ops[c], Begin(c, o) PROVE CallTypes(c)'
  <2>1. /\ pc[c] = "idle" /\ pc'[c] = "running" /\ op'[c] = o /\ at'[c] = 1
        /\ UNCHANGED <<view, target, nonce, tries>>
    BY <1>1, <1>d DEF Begin, DomainsOK, locals
  <2> QED BY <1>d, <2>1 DEF CallTypes
<1>2. ASSUME NEW d, AtStep(c, d)
      PROVE  /\ Place(op[c], at[c], d) /\ op[c] \in Ops[c] /\ pc[c] = "running"
             /\ (d \notin {"register", "default"} \cup Setting => tries[c] = 0)
             /\ (op[c].kind # "AutoFix" => op[c].b \in Bridges)
  BY <1>2, <1>d, AtPlace DEF AtStep
<1>3. CASE ReadDefault(c)
  <2>1. op[c].kind # "E2E" /\ tries[c] = 0 /\ pc[c] = "running" /\ op[c] \in Ops[c]
    BY <1>2, <1>3 DEF ReadDefault, Place, Setting
  <2>2. /\ view'[c].default = default /\ view'[c].adapter = NoView.adapter /\ at'[c] = at[c] + 1
        /\ UNCHANGED <<pc, op, target, nonce, tries>>
    BY <1>3, <1>d DEF ReadDefault, Advance, DomainsOK, NoView
  <2> QED BY <1>b, <1>d, <2>1, <2>2 DEF CallTypes
<1>4. CASE ReadRest(c)
  <2>1. op[c].kind # "E2E" /\ tries[c] = 0 /\ pc[c] = "running" /\ op[c] \in Ops[c]
    BY <1>2, <1>4 DEF ReadRest, Place, Setting
  <2>2. at'[c] = at[c] + 1 /\ UNCHANGED <<pc, op, target, nonce, tries>>
    BY <1>4, <1>d DEF ReadRest, Advance, DomainsOK
  <2>3. /\ view'[c].default = view[c].default
        /\ view'[c].adapter \in [Bridges -> Adapters \cup {Zero}]
    BY <1>4, <1>d, ReadStatus, StatusAdapters
  <2> QED BY <1>d, <2>1, <2>2, <2>3 DEF CallTypes
<1>5. CASE Recheck(c) \/ Rows(c)
  <2>1. op[c].kind # "E2E" /\ tries[c] = 0 /\ pc[c] = "running" /\ op[c] \in Ops[c]
    BY <1>2, <1>5 DEF Recheck, Rows, Place, Setting
  <2>2. at'[c] = at[c] + 1 /\ UNCHANGED <<pc, op, view, target, nonce, tries>>
    BY <1>5, <1>d DEF Recheck, Rows, Advance, DomainsOK
  <2> QED BY <1>d, <2>1, <2>2 DEF CallTypes
<1>6. CASE FindAdapter(c)
  <2>1. /\ op[c].kind \in {"Config", "none"} /\ tries[c] = 0 /\ pc[c] = "running"
        /\ op[c] \in Ops[c] /\ op[c].b \in Bridges
    BY <1>2, <1>6 DEF FindAdapter, Place, Setting
  <2>2. /\ at'[c] = at[c] + 1 /\ target'[c] = adapter[op[c].b]
        /\ UNCHANGED <<pc, op, view, nonce, tries>>
    BY <1>6, <1>d DEF FindAdapter, Advance, DomainsOK
  <2> QED BY <1>d, <2>1, <2>2 DEF CallTypes
<1>7. CASE FindHyperbridge(c)
  <2>1. op[c].kind = "AutoFix" /\ tries[c] = 0 /\ pc[c] = "running" /\ op[c] \in Ops[c]
    BY <1>2, <1>7 DEF FindHyperbridge, Place, Setting
  <2>2. Len(Scripts[op[c]]) \in Nat
    BY <2>1, ScriptLength
  <2>3. /\ at'[c] \in {at[c] + 1, Len(Scripts[op[c]]) + 1} /\ target'[c] \in {target[c], adapter[0]}
        /\ UNCHANGED <<pc, op, view, nonce, tries>>
    BY <1>7, <1>d DEF FindHyperbridge, Advance, DomainsOK
  <2> QED BY <1>b, <1>d, <2>1, <2>2, <2>3 DEF CallTypes
<1>8. CASE FindSender(c)
  <2>1. tries[c] = 0 /\ pc[c] = "running" /\ op[c] \in Ops[c]
    BY <1>2, <1>8 DEF FindSender, Setting
  <2>2. \A up \in BOOLEAN : Sender(op[c], up) \in Adapters \cup {Zero}
    BY <1>b, <1>d, <2>1, AskedOp DEF Sender, Adapters
  <2>3. /\ at'[c] = at[c] + 1
        /\ \E up \in BOOLEAN : target'[c] = Sender(op[c], up) /\ Sender(op[c], up) # Zero
        /\ view'[c].default = NoView.default /\ view'[c].adapter = adapter
        /\ UNCHANGED <<pc, op, nonce, tries>>
    BY <1>8, <1>d DEF FindSender, Advance, DomainsOK, NoView
  <2> QED BY <1>b, <1>d, <2>1, <2>2, <2>3 DEF CallTypes
<1>9. ASSUME Transacting(c)
      PROVE  /\ pc[c] = "running" /\ InTx(c) /\ op[c] \in Ops[c] /\ (op[c].kind = "E2E" => at[c] >= 2)
  <2>1. pc[c] = "running" /\ InTx(c)
    BY <1>9 DEF Transacting, InTx
  <2>2. Place(op[c], at[c], Step(c).do) /\ op[c] \in Ops[c]
    BY <1>d, <2>1, AtPlace DEF InTx
  <2> QED BY <1>d, <2>1, <2>2 DEF Place, InTx, Setting, CallTypes
<1>10. CASE SkipStep(c)
  <2>1. /\ at'[c] = at[c] + 1 /\ tries[c] = 0 /\ UNCHANGED <<pc, op, view, target, nonce, tries>>
    BY <1>10, <1>d DEF SkipStep, Advance, Skipped, DomainsOK, locals
  <2>2. pc[c] = "running" /\ op[c] \in Ops[c] /\ (op[c].kind = "E2E" => at[c] >= 2)
    BY <1>9, <1>10 DEF SkipStep
  <2> QED BY <1>d, <2>1, <2>2 DEF CallTypes
<1>11. CASE PickNonce(c)
  <2>1. pc[c] = "running" /\ InTx(c) /\ op[c] \in Ops[c]
    BY <1>9, <1>11 DEF PickNonce
  <2>2. ChainOf(TxOf(c)) \in Side
    BY <1>d, <2>1, TxType
  <2>3. /\ pc'[c] = "sending" /\ tries'[c] = tries[c] + 1 /\ UNCHANGED <<op, at, view, target>>
        /\ nonce'[c] = mined[ChainOf(TxOf(c))] + Len(pool[ChainOf(TxOf(c))])
    BY <1>11, <1>d DEF PickNonce, DomainsOK
  <2>4. nonce'[c] \in Nat
    BY <2>2, <2>3 DEF RouteTypes, PoolTypes
  <2>5. InTx(c)'
    BY <2>1, <2>3 DEF InTx, Step
  <2> QED BY <1>d, <2>1, <2>3, <2>4, <2>5 DEF CallTypes
<1>12. CASE Accepted(c) \/ Replaces(c)
  <2>1. Sends(c)
    BY <1>12, PoolCases
  <2>2. Place(op[c], at[c], Step(c).do) /\ op[c] \in Ops[c] /\ InTx(c)
    BY <1>d, <2>1, AtPlace DEF InTx, Sends, CallTypes
  <2>3. op[c].kind = "E2E" => at[c] >= 2
    BY <1>d, <2>2 DEF Place, InTx, Setting, CallTypes
  <2> QED BY <1>d, <2>1, <2>2, <2>3 DEF CallTypes, Sends
<1>13. CASE NonceTaken(c)
  <2>1. CASE tries[c] < MaxAttempts
    <3>1. pc[c] = "sending" /\ pc'[c] = "running" /\ nonce'[c] = 0
          /\ UNCHANGED <<op, at, view, target, tries>>
      BY <1>13, <1>d, <2>1 DEF NonceTaken, DomainsOK
    <3>2. InTx(c) = InTx(c)'
      BY <3>1 DEF InTx, Step
    <3> QED BY <1>d, <3>1, <3>2 DEF CallTypes
  <2>2. CASE ~(tries[c] < MaxAttempts)
    BY <1>13, <1>d, <2>2, AbandonTypes DEF NonceTaken
  <2> QED BY <2>1, <2>2
<1>14. CASE Refuse(c) \/ Fail(c)
  <2>1. Abandon(c) /\ pc[c] # "idle"
    BY <1>14 DEF Refuse, Fail, Refused, AtStep, Transacting
  <2> QED BY <1>d, <2>1, AbandonTypes
<1>15. CASE Finish(c)
  <2>1. /\ pc[c] = "running" /\ pc'[c] = "ok" /\ UNCHANGED <<op, at, view, target, nonce, tries>>
        /\ at[c] > Len(Scripts[op[c]])
    BY <1>15, <1>d DEF Finish, DomainsOK, locals
  <2>2. tries[c] = 0
    <3>1. op[c] \in Ops[c] /\ Len(Scripts[op[c]]) \in Nat
      BY <1>d, <2>1, ScriptLength DEF CallTypes
    <3> QED BY <1>d, <2>1, <3>1 DEF CallTypes, InTx
  <2> QED BY <1>d, <2>1, <2>2 DEF CallTypes
<1> QED BY <1>1, <1>3, <1>4, <1>5, <1>6, <1>7, <1>8, <1>10, <1>11, <1>12, <1>13, <1>14, <1>15
        DEF CallStep, Run

\* A block takes the first transaction of a pool.
Mined(n) == /\ n \in Side /\ pool[n] # <<>>
            /\ pool' = [pool EXCEPT ![n] = Tail(@)] /\ mined' = [mined EXCEPT ![n] = @ + 1]

LEMMA MinedPool ==
    ASSUME RouteTypes, NEW n, Mined(n)
    PROVE  /\ pool' \in [Side -> Seq(Txs)] /\ mined' \in [Side -> Nat]
           /\ Head(pool[n]) = pool[n][1] /\ Head(pool[n]) \in Txs /\ 1 \in 1 .. Len(pool[n])
           /\ mined'[n] = mined[n] + 1 /\ Len(pool'[n]) = Len(pool[n]) - 1
           /\ \A i \in 1 .. Len(pool'[n]) : i + 1 \in 1 .. Len(pool[n]) /\ pool'[n][i] = pool[n][i + 1]
           /\ \A m \in Side \ {n} : pool'[m] = pool[m] /\ mined'[m] = mined[m]
<1>1. n \in Side /\ pool \in [Side -> Seq(Txs)] /\ mined \in [Side -> Nat] /\ pool[n] # <<>>
  BY DEF RouteTypes, PoolTypes, Mined
<1> DEFINE p == pool[n]
<1>2. /\ p \in Seq(Txs) /\ p # <<>> /\ pool'[n] = Tail(p)
      /\ \A m \in Side \ {n} : pool'[m] = pool[m] /\ mined'[m] = mined[m]
      /\ mined'[n] = mined[n] + 1 /\ mined' \in [Side -> Nat]
  BY <1>1 DEF Mined
<1> HIDE DEF p
<1>3. /\ Tail(p) \in Seq(Txs) /\ Head(p) \in Txs /\ Len(Tail(p)) = Len(p) - 1
      /\ \A i \in 1 .. Len(Tail(p)) : Tail(p)[i] = p[i + 1]
      /\ Len(p) \in Nat \ {0}
  BY <1>2, HeadTailProperties, EmptySeq
<1>4. Head(p) = p[1]
  BY <1>2
<1>5. pool' \in [Side -> Seq(Txs)]
  <2>1. Tail(pool[n]) \in Seq(Txs)
    BY <1>3 DEF p
  <2> QED BY <1>1, <2>1 DEF Mined
<1>6. \A i \in 1 .. Len(Tail(p)) : i + 1 \in 1 .. Len(p)
  BY <1>3
<1>7. 1 \in 1 .. Len(p)
  BY <1>3
<1> QED BY <1>2, <1>3, <1>4, <1>5, <1>6, <1>7 DEF p

LEMMA ChainTypes == ASSUME RouteTypes, ChainStep \/ UNCHANGED routeVars PROVE RouteTypes'
<1>1. DomainsOK' /\ \A d \in Calls : Kept(d)
  BY ChainKeeps DEF RouteTypes
<1>2. \A d \in Calls : CallTypes(d)'
  BY <1>1, TypesKept DEF RouteTypes
<1>3. ASSUME NEW n, Mined(n), pc' = pc PROVE PoolTypes'
  <2>1. \A m \in Side : \A i \in 1 .. Len(pool'[m]) :
          \E j \in 1 .. Len(pool[m]) : pool'[m][i] = pool[m][j]
    <3>1. ASSUME NEW m \in Side, NEW i \in 1 .. Len(pool'[m])
          PROVE  \E j \in 1 .. Len(pool[m]) : pool'[m][i] = pool[m][j]
      <4>1. CASE m = n
        <5>1. i + 1 \in 1 .. Len(pool[m]) /\ pool'[m][i] = pool[m][i + 1]
          BY <1>3, <3>1, <4>1, MinedPool
        <5> QED BY <5>1
      <4>2. CASE m # n
        <5>1. m \in Side \ {n}
          BY <3>1, <4>2
        <5>2. pool'[m] = pool[m]
          BY <1>3, <5>1, MinedPool
        <5> QED BY <3>1, <5>2
      <4> QED BY <4>1, <4>2
    <3> QED BY <3>1
  <2> QED BY <1>3, <2>1, MinedPool DEF RouteTypes, PoolTypes
<1>4. ASSUME NEW n \in Side, Mine(n) PROVE RouteTypes'
  <2>1. Mined(n) /\ pc' = pc /\ Apply(Head(pool[n]))
    BY <1>4 DEF Mine, Mined
  <2>2. Head(pool[n]) \in Txs
    BY <2>1, MinedPool
  <2>3. adapter' \in [Bridges -> Adapters \cup {Zero}] /\ default' \in Bridges
    BY <2>1, <2>2 DEF Apply, Txs, RouteTypes
  <2> QED BY <1>1, <1>2, <1>3, <2>1, <2>3 DEF RouteTypes
<1>5. ASSUME NEW n \in Side, Revert(n) PROVE RouteTypes'
  <2>1. Mined(n) /\ pc' = pc /\ UNCHANGED <<adapter, default>>
    BY <1>5 DEF Revert, Mined, route
  <2> QED BY <1>1, <1>2, <1>3, <2>1 DEF RouteTypes
<1>6. ASSUME UNCHANGED <<adapter, default, pool, mined, pc>> PROVE RouteTypes'
  <2>1. PoolTypes'
    BY <1>6 DEF RouteTypes, PoolTypes
  <2> QED BY <1>1, <1>2, <1>6, <2>1 DEF RouteTypes
<1>7. ASSUME NEW b, QuotesChange(b) \/ UNCHANGED routeVars
      PROVE  UNCHANGED <<adapter, default, pool, mined, pc>>
  BY <1>7 DEF QuotesChange, routeVars, route, chains
<1> QED BY <1>4, <1>5, <1>6, <1>7 DEF ChainStep, Side

\* A transaction of the pool was sent by a call.
LEMMA PoolTx == ASSUME RouteTypes, NEW n \in Side, NEW i \in 1 .. Len(pool[n])
                PROVE  pool[n][i] \in Txs /\ pool[n][i].by \in Calls
<1>1. pool[n][i] \in Txs
  BY DEF RouteTypes, PoolTypes
<1> QED BY <1>1 DEF Txs

LEMMA CallPoolTypes == ASSUME RouteTypes, NEW c \in Calls, CallStep(c) PROVE PoolTypes'
<1>1. mined' = mined /\ \A d \in Calls \ {c} : Kept(d)
  BY CallKeeps DEF RouteTypes
<1>2. pc'[c] # "idle"
  BY OpKept DEF CallStep, Begin, RouteTypes, DomainsOK
<1>3. \A d \in Calls : pc[d] # "idle" => pc'[d] # "idle"
  BY <1>1, <1>2 DEF Kept
<1>4. CASE UNCHANGED pool
  <2>1. \A n \in Side : \A i \in 1 .. Len(pool[n]) : pool[n][i].by \in Calls
    BY PoolTx
  <2> QED BY <1>1, <1>3, <1>4, <2>1 DEF RouteTypes, PoolTypes
<1>5. CASE Sends(c)
  <2>1. TxOf(c).by = c
    BY <1>5, TxType DEF Sends, RouteTypes, CallTypes
  <2>2. \A n \in Side : \A i \in 1 .. Len(pool[n]) : pool[n][i].by \in Calls
    BY PoolTx
  <2>3. ASSUME NEW n \in Side, NEW i \in 1 .. Len(pool'[n]) PROVE pc'[pool'[n][i].by] # "idle"
    <3>1. (i \in 1 .. Len(pool[n]) /\ pool'[n][i] = pool[n][i]) \/ pool'[n][i] = TxOf(c)
      BY <1>5, <2>3, SentPool
    <3> QED BY <1>2, <1>3, <2>1, <2>2, <3>1 DEF RouteTypes, PoolTypes
  <2> QED BY <1>1, <1>5, <2>3, SentPool DEF RouteTypes, PoolTypes
<1> QED BY <1>4, <1>5, PoolCases

LEMMA CallRouteTypes == ASSUME RouteTypes, NEW c \in Calls, CallStep(c) PROVE RouteTypes'
<1>1. DomainsOK' /\ (\A d \in Calls \ {c} : Kept(d)) /\ UNCHANGED <<adapter, default>>
  BY CallKeeps DEF RouteTypes, route
<1>2. \A d \in Calls \ {c} : CallTypes(d)'
  BY <1>1, TypesKept DEF RouteTypes
<1>3. CallTypes(c)' /\ PoolTypes'
  BY TypesOwn, CallPoolTypes
<1> QED BY <1>1, <1>2, <1>3 DEF RouteTypes

LEMMA RouteTypesInit == RouteInit => RouteTypes
  BY InitAdaptersAssumption DEF RouteInit, RouteTypes, PoolTypes, CallTypes, DomainsOK, Bridges,
                                Side, NoView

\* Where the transaction of c went: its nonce is its place in the pool. All others
\* stay where they are, but the one that it replaced.
Placed(c, n, p) ==
    /\ p \in 1 .. Len(pool'[n]) /\ p = nonce[c] - mined[n] + 1 /\ pool'[n][p] = TxOf(c)
    /\ \A k \in 1 .. Len(pool'[n]) : k # p => k \in 1 .. Len(pool[n]) /\ pool'[n][k] = pool[n][k]
    /\ \A k \in 1 .. Len(pool[n]) :
          /\ k \in 1 .. Len(pool'[n])
          /\ pool'[n][k] = pool[n][k] \/ pool[n][k].by \in spoilt'

LEMMA SentPlace ==
    ASSUME RouteTypes, NEW c \in Calls, Sends(c)
    PROVE  LET n == ChainOf(TxOf(c)) IN
           /\ n \in Side /\ Placed(c, n, nonce[c] - mined[n] + 1)
           /\ \A m \in Side \ {n} : pool'[m] = pool[m]
           /\ spoilt \subseteq spoilt'
<1> DEFINE n == ChainOf(TxOf(c))
           p == nonce[c] - mined[n] + 1
           s == pool[n]
           new == pool'[n]
           x == TxOf(c)
<1>1. /\ x \in Txs /\ n \in Side /\ s \in Seq(Txs) /\ DOMAIN pool = Side
      /\ mined[n] \in Nat /\ nonce[c] \in Nat
  BY TxType DEF RouteTypes, PoolTypes, CallTypes, Sends
<1>2. CASE Appended(c, n)
  <2>1. new = Append(s, x) /\ spoilt' = spoilt /\ \A m \in Side \ {n} : pool'[m] = pool[m]
    BY <1>1, <1>2 DEF Appended
  <2>2. p = Len(s) + 1
    BY <1>1, <1>2 DEF Appended
  <2> HIDE DEF p, s, new, x
  <2>3. /\ p \in 1 .. Len(new) /\ new[p] = x
        /\ \A k \in 1 .. Len(new) : k # p => k \in 1 .. Len(s) /\ new[k] = s[k]
        /\ \A k \in 1 .. Len(s) : k \in 1 .. Len(new) /\ new[k] = s[k]
    BY <1>1, <2>1, <2>2
  <2> QED BY <1>1, <2>1, <2>3 DEF Placed, p, s, new, x
<1>3. ASSUME NEW j \in Nat, Replaced(c, n, j)
      PROVE  Placed(c, n, p) /\ spoilt \subseteq spoilt' /\ \A m \in Side \ {n} : pool'[m] = pool[m]
  <2>1. /\ new = [s EXCEPT ![p] = x] /\ p \in 1 .. Len(s) /\ \A m \in Side \ {n} : pool'[m] = pool[m]
        /\ spoilt' = spoilt \cup {s[p].by}
    BY <1>1, <1>3 DEF Replaced
  <2> HIDE DEF p, s, new, x
  <2>2. /\ p \in 1 .. Len(new) /\ new[p] = x
        /\ \A k \in 1 .. Len(new) : k # p => k \in 1 .. Len(s) /\ new[k] = s[k]
        /\ \A k \in 1 .. Len(s) : k \in 1 .. Len(new) /\ (new[k] = s[k] \/ k = p)
    BY <1>1, <2>1
  <2> QED BY <1>1, <2>1, <2>2 DEF Placed, p, s, new, x
<1> QED BY <1>1, <1>2, <1>3 DEF Sends

-----------------------------------------------------------------------------
(* RouteConfig: the default bridge of AutoFix *)

\* The transaction at place j of pool s registers an adapter of bridge b for call c.
Registers(s, c, b, j) ==
    j \in 1 .. Len(s) /\ s[j].kind = "adapter" /\ s[j].b = b /\ s[j].by = c

\* Up to the default bridge, AutoFix knows that the bridge has an adapter, or
\* that the registration is ahead of what it is about to send.
FixOK(c) ==
    pc[c] \in {"running", "sending"} /\ op[c].kind = "AutoFix" /\ Bridge(c) \in 0 .. 2 =>
       /\ at[c] = 3 /\ SeenAdapter(c) # Zero => adapter[Bridge(c)] # Zero
       /\ at[c] = 4 /\ c \notin spoilt =>
             \/ adapter[Bridge(c)] # Zero
             \/ \E j \in 1 .. Len(pool["source"]) :
                   /\ Registers(pool["source"], c, Bridge(c), j)
                   /\ (pc[c] = "sending" => j <= nonce[c] - mined["source"])

\* Place i of the pool does not switch to a bridge before its registration.
Ordered(i) ==
    LET tx == pool["source"][i]
    IN  /\ tx.kind = "default" /\ tx.b \in 0 .. 2 /\ op[tx.by].kind = "AutoFix" /\ tx.by \notin spoilt
        => adapter[tx.b] # Zero \/ \E j \in 1 .. (i - 1) : Registers(pool["source"], tx.by, tx.b, j)

FixInv ==
    /\ RouteTypes
    /\ \A c \in Calls : FixOK(c)
    /\ \A i \in 1 .. Len(pool["source"]) : Ordered(i)

\* A registered adapter is replaced at most by another one.
LEMMA AdapterStays ==
    ASSUME RouteTypes, [RouteNext]_routeVars, NEW b \in Bridges, adapter[b] # Zero
    PROVE  adapter'[b] # Zero
<1>1. ASSUME NEW n \in Side, Mine(n) PROVE adapter'[b] # Zero
  <2>1. Mined(n) /\ Apply(Head(pool[n]))
    BY <1>1 DEF Mine, Mined
  <2>2. Head(pool[n]) \in Txs
    BY <2>1, MinedPool
  <2> QED BY <2>1, <2>2 DEF Apply, Txs, RouteTypes
<1>2. ASSUME NEW c \in Calls, CallStep(c) PROVE adapter' = adapter
  BY <1>2, CallKeeps DEF RouteTypes, route
<1>3. ASSUME NEW n, NEW q, Revert(n) \/ QuotesChange(q) \/ UNCHANGED routeVars
      PROVE  adapter' = adapter
  BY <1>3 DEF Revert, QuotesChange, routeVars, route
<1> QED BY <1>1, <1>2, <1>3, StepCases DEF ChainStep, Side

\* A block, or another call, leaves what AutoFix relies on.
LEMMA FixMined ==
    ASSUME FixInv, [RouteNext]_routeVars, NEW n \in Side, Mine(n) \/ Revert(n),
           NEW c \in Calls, NEW b \in Bridges, NEW j, Registers(pool["source"], c, b, j),
           c \notin spoilt'
    PROVE  \/ adapter'[b] # Zero
           \/ /\ n = "source" /\ j - 1 \in 1 .. Len(pool'["source"])
              /\ Registers(pool'["source"], c, b, j - 1)
           \/ /\ n # "source" /\ j \in 1 .. Len(pool'["source"]) /\ Registers(pool'["source"], c, b, j)
<1>1. Mined(n) /\ spoilt \subseteq spoilt'
  BY DEF Mine, Revert, Mined
<1>2. CASE n # "source"
  <2>1. pool'["source"] = pool["source"]
    BY <1>1, <1>2, MinedPool DEF FixInv, Side
  <2> QED BY <1>2, <2>1 DEF Registers
<1>3. CASE n = "source" /\ j # 1
  <2> DEFINE s == pool["source"]
             t == pool'["source"]
  <2>1. /\ Len(t) = Len(s) - 1 /\ Len(s) \in Nat
        /\ \A i \in 1 .. Len(t) : t[i] = s[i + 1]
    BY <1>1, <1>3, MinedPool DEF FixInv, RouteTypes, PoolTypes
  <2>2. j \in 1 .. Len(s) /\ s[j].kind = "adapter" /\ s[j].b = b /\ s[j].by = c
    BY DEF Registers
  <2> HIDE DEF s, t
  <2>3. j - 1 \in 1 .. Len(t) /\ t[j - 1] = s[j]
    BY <1>3, <2>1, <2>2
  <2> QED BY <1>3, <2>2, <2>3 DEF Registers, s, t
<1>4. CASE n = "source" /\ j = 1
  <2>1. Head(pool[n]) = pool["source"][1] /\ Head(pool[n]) \in Txs
    BY <1>1, <1>4, MinedPool DEF FixInv
  <2>2. Head(pool[n]).kind = "adapter" /\ Head(pool[n]).b = b /\ Head(pool[n]).by = c
    BY <1>4, <2>1 DEF Registers
  <2>3. Mine(n)
    BY <2>2 DEF Revert
  <2> QED BY <2>1, <2>2, <2>3 DEF Mine, Apply, Txs, FixInv, RouteTypes
<1> QED BY <1>2, <1>3, <1>4

LEMMA FixChain == ASSUME FixInv, ChainStep \/ UNCHANGED routeVars, [RouteNext]_routeVars
                  PROVE  FixInv'
<1>1. RouteTypes /\ RouteTypes' /\ \A d \in Calls : Kept(d)
  BY ChainTypes, ChainKeeps DEF FixInv, RouteTypes
<1>2. /\ op' = op /\ spoilt \subseteq spoilt'
      /\ \A b \in Bridges : adapter[b] # Zero => adapter'[b] # Zero
  BY <1>1, AdapterStays DEF ChainStep, Mine, Revert, QuotesChange, routeVars, history
<1>3. \A c \in Calls : /\ Bridge(c)' = Bridge(c) /\ SeenAdapter(c)' = SeenAdapter(c)
                       /\ pc'[c] = pc[c] /\ at'[c] = at[c] /\ nonce'[c] = nonce[c]
                       /\ (Bridge(c) \in 0 .. 2 => Bridge(c) \in Bridges)
  BY <1>1 DEF Bridge, SeenAdapter, Kept, Bridges
<1>4. ASSUME NEW n \in Side, Mine(n) \/ Revert(n) PROVE FixInv'
  <2>m. Mined(n)
    BY <1>4 DEF Mine, Revert, Mined
  <2>1. ASSUME NEW c \in Calls PROVE FixOK(c)'
    <3> SUFFICES ASSUME pc[c] \in {"running", "sending"}, op[c].kind = "AutoFix",
                        Bridge(c) \in 0 .. 2
                 PROVE  /\ at[c] = 3 /\ SeenAdapter(c) # Zero => adapter'[Bridge(c)] # Zero
                        /\ at[c] = 4 /\ c \notin spoilt' =>
                             \/ adapter'[Bridge(c)] # Zero
                             \/ \E j \in 1 .. Len(pool'["source"]) :
                                   /\ Registers(pool'["source"], c, Bridge(c), j)
                                   /\ pc[c] = "sending" => j <= nonce[c] - mined'["source"]
      BY <1>2, <1>3 DEF FixOK
    <3>1. FixOK(c) /\ Bridge(c) \in Bridges
      BY <1>3 DEF FixInv
    <3>2. at[c] = 3 /\ SeenAdapter(c) # Zero => adapter'[Bridge(c)] # Zero
      BY <1>2, <3>1 DEF FixOK
    <3>3. ASSUME at[c] = 4, c \notin spoilt', adapter'[Bridge(c)] = Zero
          PROVE  \E j \in 1 .. Len(pool'["source"]) :
                    /\ Registers(pool'["source"], c, Bridge(c), j)
                    /\ pc[c] = "sending" => j <= nonce[c] - mined'["source"]
      <4>1. PICK j \in 1 .. Len(pool["source"]) :
               /\ Registers(pool["source"], c, Bridge(c), j)
               /\ (pc[c] = "sending" => j <= nonce[c] - mined["source"])
        BY <1>2, <3>1, <3>3 DEF FixOK
      <4>2. \/ /\ n = "source" /\ j - 1 \in 1 .. Len(pool'["source"])
               /\ Registers(pool'["source"], c, Bridge(c), j - 1)
            \/ /\ n # "source" /\ j \in 1 .. Len(pool'["source"])
               /\ Registers(pool'["source"], c, Bridge(c), j)
        <5> HIDE DEF FixInv
        <5> QED BY <1>4, <3>1, <3>3, <4>1, FixMined
      <4>3. /\ nonce[c] \in Nat /\ mined["source"] \in Nat /\ Len(pool["source"]) \in Nat
            /\ (n = "source" => mined'["source"] = mined["source"] + 1)
            /\ (n # "source" => mined'["source"] = mined["source"])
        BY <1>1, <2>m, MinedPool DEF RouteTypes, PoolTypes, CallTypes, Side
      <4> QED BY <4>1, <4>2, <4>3
    <3> QED BY <3>2, <3>3
  <2>2. ASSUME NEW i \in 1 .. Len(pool'["source"]) PROVE Ordered(i)'
    <3> DEFINE tx == pool'["source"][i]
    <3> SUFFICES ASSUME tx.kind = "default", tx.b \in 0 .. 2, op[tx.by].kind = "AutoFix",
                        tx.by \notin spoilt', adapter'[tx.b] = Zero
                 PROVE  \E j \in 1 .. (i - 1) : Registers(pool'["source"], tx.by, tx.b, j)
      BY <1>2 DEF Ordered
    <3>1. PICK k \in 1 .. Len(pool["source"]) : /\ tx = pool["source"][k]
                                                /\ k = IF n = "source" THEN i + 1 ELSE i
      BY <1>1, <2>m, MinedPool DEF Side
    <3>t. tx.by \in Calls
      BY <1>1, <3>1, PoolTx DEF Side
    <3>2. tx.b \in Bridges
      BY DEF Bridges
    <3>3. PICK j \in 1 .. (k - 1) : Registers(pool["source"], tx.by, tx.b, j)
      <4>1. Ordered(k) /\ tx.by \notin spoilt /\ adapter[tx.b] = Zero
        BY <1>2, <3>2 DEF FixInv
      <4> HIDE DEF tx
      <4> QED BY <3>1, <4>1 DEF Ordered
    <3>4. \/ /\ n = "source" /\ j - 1 \in 1 .. Len(pool'["source"])
             /\ Registers(pool'["source"], tx.by, tx.b, j - 1)
          \/ /\ n # "source" /\ j \in 1 .. Len(pool'["source"])
             /\ Registers(pool'["source"], tx.by, tx.b, j)
      <4> HIDE DEF tx, FixInv
      <4> QED BY <1>4, <3>t, <3>2, <3>3, FixMined
    <3> HIDE DEF tx
    <3> QED BY <3>1, <3>3, <3>4
  <2> QED BY <1>1, <2>1, <2>2 DEF FixInv
<1>5. ASSUME UNCHANGED <<adapter, pool, mined, spoilt>> PROVE FixInv'
  <2>1. \A c \in Calls : FixOK(c)'
    BY <1>2, <1>3, <1>5 DEF FixInv, FixOK, Registers
  <2>2. \A i \in 1 .. Len(pool["source"]) : Ordered(i)'
    BY <1>2, <1>5 DEF FixInv, Ordered, Registers
  <2> QED BY <1>1, <1>5, <2>1, <2>2 DEF FixInv
<1>6. ASSUME NEW b, QuotesChange(b) \/ UNCHANGED routeVars
      PROVE  UNCHANGED <<adapter, pool, mined, spoilt>>
  BY <1>6 DEF QuotesChange, routeVars, route, chains, history
<1> QED BY <1>4, <1>5, <1>6 DEF ChainStep, Side

\* The steps of AutoFix that send a transaction.
LEMMA FixTx ==
    ASSUME NEW c \in Calls, CallTypes(c), pc[c] \in {"running", "sending"}, InTx(c),
           op[c].kind = "AutoFix"
    PROVE  /\ at[c] \in Nat /\ (at[c] = 3 \/ at[c] = 4 \/ at[c] > 5)
           /\ at[c] = 3 <=> Step(c).do = "register"
           /\ at[c] = 4 <=> Step(c).do = "default"
           /\ at[c] > 5 <=> Step(c).do \in Setting
<1>1. Place(op[c], at[c], Step(c).do) /\ at[c] \in Nat
  BY AtPlace DEF InTx, CallTypes
<1> QED BY <1>1 DEF Place, InTx, Setting

LEMMA FixOwn == ASSUME FixInv, NEW c \in Calls, CallStep(c) PROVE FixOK(c)'
<1>1. RouteTypes /\ CallTypes(c) /\ DomainsOK /\ adapter' = adapter /\ mined' = mined
  BY CallKeeps DEF FixInv, RouteTypes, route
<1>2. ASSUME NEW o \in Ops[c], Begin(c, o) PROVE at'[c] = 1
  BY <1>1, <1>2 DEF Begin, DomainsOK
<1>3. ASSUME Run(c) \/ Fail(c), op[c].kind # "AutoFix" PROVE FixOK(c)'
  BY <1>1, <1>3, OpKept DEF FixOK
<1> SUFFICES ASSUME Run(c) \/ Fail(c), op[c].kind = "AutoFix", pc'[c] \in {"running", "sending"}
             PROVE  FixOK(c)'
  BY <1>2, <1>3 DEF FixOK, CallStep
<1>4. op' = op
  BY <1>1, OpKept
<1>5. ASSUME NEW d, AtStep(c, d) PROVE Place(op[c], at[c], d) /\ at[c] \in Nat
  BY <1>1, <1>5, AtPlace DEF AtStep, CallTypes
<1>6. CASE ReadDefault(c)
  <2>1. at[c] = 1 /\ at'[c] = 2
    BY <1>1, <1>5, <1>6 DEF ReadDefault, Place, Advance, DomainsOK
  <2> QED BY <2>1 DEF FixOK
<1>7. CASE ReadRest(c)
  <2>1. at[c] = 2 /\ at'[c] = 3
    BY <1>1, <1>5, <1>7 DEF ReadRest, Place, Advance, DomainsOK
  <2>2. /\ view'[c].default = view[c].default
        /\ \A b \in Bridges : view'[c].adapter[b] # Zero => view'[c].adapter[b] = adapter[b]
    BY <1>1, <1>7, ReadStatus, StatusAdapters DEF RouteTypes
  <2>3. Bridge(c)' = Bridge(c)
    BY <1>4, <2>2 DEF Bridge
  <2>4. Bridge(c) \in 0 .. 2 /\ SeenAdapter(c)' # Zero => adapter[Bridge(c)] # Zero
    BY <2>2, <2>3 DEF SeenAdapter, Bridges
  <2> QED BY <1>1, <2>1, <2>3, <2>4 DEF FixOK
<1>8. CASE Recheck(c) \/ Rows(c) \/ FindAdapter(c) \/ FindSender(c)
  BY <1>5, <1>8 DEF Recheck, Rows, FindAdapter, FindSender, Place
<1>9. CASE FindHyperbridge(c)
  <2>1. at[c] = 5
    BY <1>5, <1>9 DEF FindHyperbridge, Place
  <2>2. at[c] <= Len(Scripts[op[c]]) /\ Len(Scripts[op[c]]) \in Nat
    BY <1>1, <1>9, ScriptLength DEF FindHyperbridge, AtStep, CallTypes
  <2>3. at'[c] > 5
    BY <1>1, <1>9, <2>1, <2>2 DEF FindHyperbridge, Advance, DomainsOK
  <2> QED BY <2>3 DEF FixOK
<1>10. ASSUME view' = view PROVE Bridge(c)' = Bridge(c) /\ SeenAdapter(c)' = SeenAdapter(c)
  BY <1>4, <1>10 DEF Bridge, SeenAdapter
<1>11. CASE SkipStep(c)
  <2>1. /\ at'[c] = at[c] + 1 /\ view' = view /\ pc' = pc /\ InTx(c) /\ pc[c] = "running"
        /\ Skipped(c)
    BY <1>1, <1>11 DEF SkipStep, Advance, Transacting, InTx, DomainsOK, locals
  <2>2. /\ at[c] \in Nat /\ (at[c] = 3 \/ at[c] = 4 \/ at[c] > 5)
        /\ (at[c] = 3 <=> Step(c).do = "register")
    BY <1>1, <2>1, FixTx
  <2>3. at[c] = 3 => SeenAdapter(c) # Zero
    BY <2>1, <2>2 DEF Skipped, RegisterSkipped, Setting
  <2>4. at[c] = 3 /\ Bridge(c) \in 0 .. 2 => adapter[Bridge(c)] # Zero
    BY <2>1, <2>3 DEF FixInv, FixOK
  <2> QED BY <1>1, <1>10, <2>1, <2>2, <2>4 DEF FixOK
<1>12. CASE PickNonce(c)
  <2>1. /\ at' = at /\ view' = view /\ pc[c] = "running" /\ InTx(c) /\ pc'[c] = "sending"
        /\ UNCHANGED <<pool, spoilt>>
        /\ nonce'[c] = mined[ChainOf(TxOf(c))] + Len(pool[ChainOf(TxOf(c))])
    BY <1>1, <1>12 DEF PickNonce, Transacting, InTx, DomainsOK, chains, history
  <2>2. at[c] = 4 => Step(c).do = "default"
    BY <1>1, <2>1, FixTx
  <2>3. at[c] = 4 => ChainOf(TxOf(c)) = "source"
    BY <2>2 DEF TxOf, ChainOf, Zero, Receiver
  <2>4. mined["source"] \in Nat /\ Len(pool["source"]) \in Nat
    BY <1>1 DEF RouteTypes, PoolTypes, Side
  <2>5. at[c] = 4 => nonce'[c] - mined["source"] = Len(pool["source"])
    BY <2>1, <2>3, <2>4
  <2>6. FixOK(c)
    BY DEF FixInv
  <2> QED BY <1>1, <1>4, <1>10, <2>1, <2>4, <2>5, <2>6 DEF FixOK
<1>13. CASE Accepted(c) \/ Replaces(c)
  <2> DEFINE n == ChainOf(TxOf(c))
             p == nonce[c] - mined[n] + 1
  <2>1. Sends(c)
    BY <1>1, <1>13, PoolCases
  <2>2. InTx(c) /\ pc[c] = "sending" /\ at'[c] = at[c] + 1 /\ pc'[c] = "running" /\ view' = view
    BY <1>1, <2>1 DEF Sends, CallTypes
  <2>3. /\ at[c] \in Nat /\ (at[c] = 3 \/ at[c] = 4 \/ at[c] > 5)
        /\ (at[c] = 3 <=> Step(c).do = "register")
    BY <1>1, <2>2, FixTx
  <2>4. CASE at[c] # 3
    BY <2>2, <2>3, <2>4 DEF FixOK
  <2>5. CASE at[c] = 3
    <3>1. TxOf(c).kind = "adapter" /\ TxOf(c).b = Bridge(c) /\ TxOf(c).by = c
      BY <2>3, <2>5 DEF TxOf
    <3>2. TxOf(c).addr # Receiver
      BY <2>3, <2>5 DEF TxOf, ActiveContract, Receiver
    <3>3. n = "source"
      BY <3>2 DEF ChainOf
    <3>4. p \in 1 .. Len(pool'["source"]) /\ pool'["source"][p] = TxOf(c)
      BY <1>1, <2>1, <3>3, SentPlace DEF Placed
    <3>5. Registers(pool'["source"], c, Bridge(c), p)
      BY <3>1, <3>4 DEF Registers
    <3> HIDE DEF p, n
    <3> QED BY <1>4, <1>10, <2>2, <2>5, <3>4, <3>5 DEF FixOK
  <2> QED BY <2>4, <2>5
<1>14. CASE NonceTaken(c)
  <2>1. /\ at' = at /\ view' = view /\ pc'[c] = "running" /\ UNCHANGED <<pool, spoilt>>
        /\ pc[c] = "sending"
    BY <1>1, <1>14 DEF NonceTaken, Abandon, DomainsOK, chains, history
  <2>2. FixOK(c)
    BY DEF FixInv
  <2> QED BY <1>1, <1>4, <1>10, <2>1, <2>2 DEF FixOK
<1>15. CASE Refuse(c) \/ Fail(c) \/ Finish(c)
  BY <1>1, <1>15 DEF Refuse, Fail, Finish, Abandon, DomainsOK
<1> QED BY <1>6, <1>7, <1>8, <1>9, <1>11, <1>12, <1>13, <1>14, <1>15 DEF Run

\* A transaction that is sent spoils whoever's registration it replaces.
LEMMA FixSent ==
    ASSUME RouteTypes, NEW c \in Calls, CallStep(c),
           NEW d, NEW b, NEW j, Registers(pool["source"], d, b, j), d \notin spoilt'
    PROVE  Registers(pool'["source"], d, b, j)
<1>1. CASE pool' = pool
  BY <1>1
<1>2. CASE Sends(c)
  <2> DEFINE n == ChainOf(TxOf(c))
  <2>1. /\ \/ n = "source" /\ Placed(c, "source", nonce[c] - mined["source"] + 1)
           \/ pool'["source"] = pool["source"]
    BY <1>2, SentPlace DEF Side
  <2> QED BY <2>1 DEF Registers, Placed
<1> QED BY <1>1, <1>2, PoolCases

LEMMA FixCall == ASSUME FixInv, NEW c \in Calls, CallStep(c) PROVE FixInv'
<1>1. /\ RouteTypes /\ RouteTypes' /\ adapter' = adapter /\ mined' = mined
      /\ \A d \in Calls \ {c} : Kept(d)
  BY CallKeeps, CallRouteTypes DEF FixInv, RouteTypes, route
<1>2. spoilt \subseteq spoilt'
  BY <1>1, PoolCases, SentPlace
<1>3. ASSUME NEW d \in Calls \ {c} PROVE FixOK(d)'
  <2>1. /\ Bridge(d)' = Bridge(d) /\ SeenAdapter(d)' = SeenAdapter(d) /\ pc'[d] = pc[d]
        /\ at'[d] = at[d] /\ nonce'[d] = nonce[d] /\ op'[d] = op[d]
    BY <1>1 DEF Kept, Bridge, SeenAdapter
  <2>2. \A j : Registers(pool["source"], d, Bridge(d), j) /\ d \notin spoilt'
               => Registers(pool'["source"], d, Bridge(d), j) /\ j \in 1 .. Len(pool'["source"])
    BY <1>1, FixSent DEF Registers
  <2>3. FixOK(d)
    BY DEF FixInv
  <2> QED BY <1>1, <1>2, <2>1, <2>2, <2>3 DEF FixOK
<1>4. \A d \in Calls : pc[d] # "idle" => op'[d] = op[d]
  BY <1>1, OpKept DEF CallStep, Begin, Kept, RouteTypes
<1>5. ASSUME NEW i \in 1 .. Len(pool'["source"]) PROVE Ordered(i)'
  <2> DEFINE tx == pool'["source"][i]
  <2> SUFFICES ASSUME tx.kind = "default", tx.b \in 0 .. 2, op'[tx.by].kind = "AutoFix",
                      tx.by \notin spoilt', adapter[tx.b] = Zero
               PROVE  \E j \in 1 .. (i - 1) : Registers(pool'["source"], tx.by, tx.b, j)
    BY <1>1 DEF Ordered
  <2>1. CASE i \in 1 .. Len(pool["source"]) /\ tx = pool["source"][i]
    <3>1. tx.by \in Calls /\ pc[tx.by] # "idle"
      BY <1>1, <2>1, PoolTx DEF Side, RouteTypes, PoolTypes
    <3>2. op[tx.by].kind = "AutoFix" /\ tx.by \notin spoilt /\ Ordered(i)
      BY <1>2, <1>4, <2>1, <3>1 DEF FixInv
    <3> HIDE DEF tx
    <3>3. PICK j \in 1 .. (i - 1) : Registers(pool["source"], tx.by, tx.b, j)
      BY <2>1, <3>2 DEF Ordered
    <3>4. Registers(pool'["source"], tx.by, tx.b, j)
      BY <1>1, <3>3, FixSent
    <3> QED BY <3>4
  <2>2. CASE ~(i \in 1 .. Len(pool["source"]) /\ tx = pool["source"][i])
    <3>1. Sends(c)
      BY <1>1, <2>2, PoolCases
    <3> DEFINE n == ChainOf(TxOf(c))
               p == nonce[c] - mined["source"] + 1
    <3>2. n = "source" /\ Placed(c, "source", p)
      BY <1>1, <2>2, <3>1, SentPlace DEF Side
    <3>3. i = p /\ tx = TxOf(c)
      BY <2>2, <3>2 DEF Placed
    <3>4. CallTypes(c) /\ pc[c] = "sending" /\ InTx(c) /\ op' = op
      BY <1>1, <3>1 DEF RouteTypes, CallTypes, Sends
    <3>5. tx.by = c
      BY <3>3, <3>4, TxType
    <3>6. Step(c).do = "default" /\ tx.b = Bridge(c) /\ op[c].kind = "AutoFix"
      BY <3>3, <3>4, <3>5, FixTx DEF TxOf, InTx
    <3>7. at[c] = 4 /\ FixOK(c) /\ c \notin spoilt
      BY <1>2, <3>4, <3>5, <3>6, FixTx DEF FixInv
    <3> HIDE DEF tx, n
    <3>8. PICK j \in 1 .. Len(pool["source"]) :
             Registers(pool["source"], c, Bridge(c), j) /\ j <= nonce[c] - mined["source"]
      BY <3>4, <3>6, <3>7 DEF FixOK
    <3>9. Registers(pool'["source"], c, Bridge(c), j)
      BY <1>1, <3>5, <3>8, FixSent
    <3>10. nonce[c] \in Nat /\ mined["source"] \in Nat /\ Len(pool["source"]) \in Nat
      BY <1>1 DEF RouteTypes, PoolTypes, CallTypes, Side
    <3>11. j \in 1 .. (i - 1)
      BY <3>3, <3>8, <3>10
    <3> QED BY <3>5, <3>6, <3>9, <3>11
  <2> QED BY <2>1, <2>2
<1>6. FixOK(c)'
  BY FixOwn
<1> QED BY <1>1, <1>3, <1>5, <1>6 DEF FixInv

LEMMA FixInvariance == RouteSpec => []FixInv
<1>1. RouteInit => FixInv
  <2>1. RouteInit => Len(pool["source"]) = 0 /\ \A c \in Calls : FixOK(c)
    BY DEF RouteInit, FixOK
  <2> QED BY <2>1, RouteTypesInit DEF FixInv
<1>2. FixInv /\ [RouteNext]_routeVars => FixInv'
  BY FixCall, FixChain, StepCases
<1> QED BY <1>1, <1>2, PTL DEF RouteSpec

(* AutoFix switches the gateway to a bridge only once the bridge has an      *)
(* adapter, although it waits for no transaction: the registration is ahead  *)
(* of the switch in the queue of the owner's nonces, and there it stays      *)
(* unless it reverts or another transaction takes its place.                 *)
THEOREM DefaultCorrect == RouteSpec => DefaultAfterAdapter
<1> DEFINE tx == Head(pool["source"])
           Claim == /\ Mine("source") /\ tx.kind = "default" /\ tx.b \in 0 .. 2
                    /\ op[tx.by].kind = "AutoFix" /\ tx.by \notin spoilt
                    => adapter[tx.b] # Zero
<1>1. FixInv /\ [RouteNext]_routeVars => [Claim]_routeVars
  <2> SUFFICES ASSUME FixInv, Mine("source"), tx.kind = "default", tx.b \in 0 .. 2,
                      op[tx.by].kind = "AutoFix", tx.by \notin spoilt
               PROVE  adapter[tx.b] # Zero
    OBVIOUS
  <2>1. Mined("source")
    BY DEF Mine, Mined, Side
  <2>2. tx = pool["source"][1] /\ 1 \in 1 .. Len(pool["source"]) /\ Ordered(1)
    BY <2>1, MinedPool DEF FixInv
  <2> HIDE DEF tx
  <2> QED BY <2>2 DEF Ordered
<1> QED BY <1>1, FixInvariance, PTL DEF RouteSpec, DefaultAfterAdapter

-----------------------------------------------------------------------------
(* RouteConfig: what a successful call has achieved *)

\* The transactions of a pool, and those of call c that wait in either.
PoolSet(n) == {pool[n][i] : i \in 1 .. Len(pool[n])}
OwnTx(c) == {tx \in PoolSet("source") \cup PoolSet("dest") : tx.by = c}

Pending(c, kind) == \E tx \in OwnTx(c) : tx.kind = kind
SetPending(S, a, n) == \E tx \in S : tx.kind = "set" /\ tx.addr = a /\ n \in tx.names

\* The bridge and the adapter of the transactions of c.
Goal(c) == IF op[c].kind = "E2E" THEN 2 ELSE Bridge(c)
Wanted(c) == IF op[c].kind = "AutoFix" THEN ActiveContract(Bridge(c))
             ELSE IF op[c].kind = "E2E" THEN target[c] ELSE op[c].addr

\* The position in its script after the registration, and after the default bridge.
Registered(o) == IF o.kind = "AutoFix" THEN 4 ELSE IF o.kind = "E2E" THEN 3 ELSE 2
Defaulted(o) == IF o.kind = "AutoFix" THEN 5 ELSE IF o.kind = "E2E" THEN 4 ELSE 2

Active(c) == pc[c] \in {"running", "sending", "ok"}

\* Every transaction of c is for its own bridge and adapter, and c has passed the
\* step that sent it.
OwnShape(c) ==
    \A tx \in OwnTx(c) :
       /\ tx.kind = "adapter" => /\ op[c].kind \in {"Register", "AutoFix", "E2E"}
                                 /\ tx.b = Goal(c) /\ tx.addr = Wanted(c)
                                 /\ at[c] >= Registered(op[c])
       /\ tx.kind = "default" => /\ op[c].kind \in {"SetDefault", "AutoFix", "E2E"}
                                 /\ tx.b = Goal(c) /\ at[c] >= Defaulted(op[c])

RegisterGoal(c) ==
    op[c].kind = "Register" /\ at[c] >= 2 => adapter[op[c].b] = op[c].addr \/ Pending(c, "adapter")

DefaultGoal(c) ==
    /\ op[c].kind = "SetDefault" /\ at[c] >= 2 => default = op[c].b \/ Pending(c, "default")
    /\ op[c].kind = "AutoFix" /\ at[c] \in 2 .. 4 => default = view[c].default
    /\ op[c].kind = "AutoFix" /\ at[c] >= 5 => default = Bridge(c) \/ Pending(c, "default")
    /\ op[c].kind = "E2E" /\ "default" \in op[c].names /\ at[c] >= 4 =>
          default = 2 \/ Pending(c, "default")

AdapterGoal(c) ==
    /\ op[c].kind = "AutoFix" /\ at[c] = 3 =>
          /\ view[c].adapter = adapter
          /\ pc[c] = "sending" \/ tries[c] # 0 => SeenAdapter(c) = Zero
    /\ op[c].kind = "AutoFix" /\ at[c] >= 4 /\ Bridge(c) \in 0 .. 2 =>
          /\ adapter[Bridge(c)] # Zero \/ Pending(c, "adapter")
          /\ Pending(c, "adapter") => adapter[Bridge(c)] \in {Zero, Wanted(c)}
    /\ op[c].kind = "E2E" /\ at[c] = 2 => view[c].adapter[2] = adapter[2]
    /\ op[c].kind = "E2E" /\ at[c] >= 3 /\ "register" \in op[c].names =>
          adapter[2] = target[c] \/ Pending(c, "adapter")

TargetGoal(c) ==
    /\ op[c].kind = "AutoFix" /\ at[c] >= 6 /\ Bridge(c) = 0 =>
          /\ target[c] = adapter[0]
          /\ Pending(c, "adapter") => target[c] = Wanted(c)
    /\ op[c].kind = "Config" /\ at[c] >= 2 => target[c] = adapter[op[c].b]

\* The contract that a setter of c is called on.
SetOn(c, d) == IF d \in {"remote", "remoteNew"} THEN Receiver ELSE target[c]

SettingsGoal(c) ==
    (op[c].kind = "AutoFix" => Bridge(c) = 0) =>
       \A i \in 1 .. Len(Scripts[op[c]]) :
          i < at[c] /\ Scripts[op[c]][i].do \in Setting =>
             \A n \in Scripts[op[c]][i].names :
                LET a == SetOn(c, Scripts[op[c]][i].do)
                IN  <<a, n>> \in settings \/ SetPending(OwnTx(c), a, n)

Goals(c) == /\ RegisterGoal(c) /\ DefaultGoal(c) /\ AdapterGoal(c) /\ TargetGoal(c)
            /\ SettingsGoal(c)

GoalOK(c) ==
    Active(c) =>
       /\ OwnShape(c)
       /\ pc[c] = "ok" => at[c] > Len(Scripts[op[c]])
       /\ op[c].kind # "Preflight" /\ c \notin disturbed \cup spoilt \cup misread => Goals(c)

GoalInv == RouteTypes /\ \A c \in Calls : GoalOK(c)

LEMMA OwnSent ==
    ASSUME RouteTypes, NEW c \in Calls, Sends(c)
    PROVE  /\ OwnTx(c)' \subseteq OwnTx(c) \cup {TxOf(c)} /\ TxOf(c) \in OwnTx(c)'
           /\ \A d \in Calls : d \notin spoilt' => OwnTx(d) \subseteq OwnTx(d)'
           /\ \A d \in Calls \ {c} : OwnTx(d)' \subseteq OwnTx(d)
<1> DEFINE x == ChainOf(TxOf(c))
<1>1. PICK n \in Side : /\ Placed(c, n, nonce[c] - mined[n] + 1)
                        /\ \A m \in Side \ {n} : pool'[m] = pool[m]
  <2>1. /\ x \in Side /\ Placed(c, x, nonce[c] - mined[x] + 1)
        /\ \A m \in Side \ {x} : pool'[m] = pool[m]
    BY SentPlace
  <2> HIDE DEF x
  <2> QED BY <2>1
<1>2. TxOf(c).by = c
  BY TxType DEF RouteTypes, CallTypes, Sends
<1> DEFINE p == nonce[c] - mined[n] + 1
<1> HIDE DEF p, x
<1>9. Placed(c, n, p)
  BY <1>1 DEF p
<1>3. \A m \in Side : PoolSet(m)' \subseteq PoolSet(m) \cup {TxOf(c)}
  BY <1>1, <1>9 DEF PoolSet, Placed
<1>4. TxOf(c) \in PoolSet(n)'
  BY <1>9 DEF PoolSet, Placed
<1>5. \A m \in Side : \A tx \in PoolSet(m) : tx \in PoolSet(m)' \/ tx.by \in spoilt'
  BY <1>1, <1>9 DEF PoolSet, Placed
<1>6. n = "source" \/ n = "dest"
  BY <1>1 DEF Side
<1> HIDE DEF PoolSet
<1>7. TxOf(c) \in PoolSet("source")' \cup PoolSet("dest")'
  BY <1>4, <1>6
<1> QED BY <1>2, <1>3, <1>5, <1>7 DEF OwnTx, Side

LEMMA OwnMined ==
    ASSUME RouteTypes, NEW n, Mined(n), NEW d
    PROVE  /\ OwnTx(d)' \subseteq OwnTx(d) /\ OwnTx(d) \subseteq OwnTx(d)' \cup {Head(pool[n])}
           /\ Head(pool[n]).by = d => Head(pool[n]) \in OwnTx(d)
<1> DEFINE h == Head(pool[n])
           s == pool[n]
           t == pool'[n]
<1>1. /\ n \in Side /\ Len(s) \in Nat /\ h = s[1] /\ 1 \in 1 .. Len(s) /\ Len(t) = Len(s) - 1
      /\ \A i \in 1 .. Len(t) : i + 1 \in 1 .. Len(s) /\ t[i] = s[i + 1]
      /\ \A m \in Side \ {n} : pool'[m] = pool[m]
  BY MinedPool DEF Mined, RouteTypes, PoolTypes
<1>2. h \in PoolSet(n)
  BY <1>1 DEF PoolSet
<1>3. PoolSet(n)' \subseteq PoolSet(n)
  <2>1. \A i \in 1 .. Len(t) : t[i] \in {s[j] : j \in 1 .. Len(s)}
    <3> HIDE DEF s, t, h
    <3> QED BY <1>1
  <2> QED BY <2>1 DEF PoolSet
<1>4. PoolSet(n) \subseteq PoolSet(n)' \cup {h}
  <2> HIDE DEF s, t, h
  <2>1. ASSUME NEW i \in 1 .. Len(s) PROVE s[i] = h \/ \E j \in 1 .. Len(t) : t[j] = s[i]
    <3>1. CASE i = 1
      BY <1>1, <3>1
    <3>2. CASE i # 1
      <4>1. i - 1 \in 1 .. Len(t) /\ t[i - 1] = s[i]
        BY <1>1, <2>1, <3>2
      <4> QED BY <4>1
    <3> QED BY <3>1, <3>2
  <2>2. PoolSet(n) = {s[i] : i \in 1 .. Len(s)} /\ PoolSet(n)' = {t[i] : i \in 1 .. Len(t)}
    BY DEF PoolSet, s, t
  <2> QED BY <2>1, <2>2
<1>5. \A m \in Side \ {n} : PoolSet(m)' = PoolSet(m)
  BY <1>1 DEF PoolSet
<1> HIDE DEF h, s, t
<1>6. \A m \in Side : PoolSet(m)' \subseteq PoolSet(m) /\ PoolSet(m) \subseteq PoolSet(m)' \cup {h}
  BY <1>3, <1>4, <1>5
<1>7. n = "source" \/ n = "dest"
  BY <1>1 DEF Side
<1>8. h.by = d => h \in OwnTx(d)
  BY <1>2, <1>7 DEF OwnTx
<1>9. OwnTx(d)' \subseteq OwnTx(d) /\ OwnTx(d) \subseteq OwnTx(d)' \cup {h}
  BY <1>6 DEF OwnTx, Side
<1> QED BY <1>8, <1>9 DEF h

\* What is said of a call depends only on the call, its transactions and the route.
LEMMA GoalsKept ==
    ASSUME NEW d, Kept(d), UNCHANGED <<adapter, default, settings>>, OwnTx(d)' = OwnTx(d), Goals(d)
    PROVE  Goals(d)'
<1>1. /\ Bridge(d)' = Bridge(d) /\ Wanted(d)' = Wanted(d) /\ SeenAdapter(d)' = SeenAdapter(d)
      /\ \A x : SetOn(d, x)' = SetOn(d, x)
  BY DEF Kept, Bridge, Wanted, SeenAdapter, SetOn
<1>2. /\ \A k : Pending(d, k)' = Pending(d, k)
      /\ \A a, n : SetPending(OwnTx(d)', a, n) = SetPending(OwnTx(d), a, n)
  BY DEF Pending, SetPending
<1>3. RegisterGoal(d)' /\ DefaultGoal(d)'
  BY <1>1, <1>2 DEF Goals, RegisterGoal, DefaultGoal, Kept
<1>4. AdapterGoal(d)' /\ TargetGoal(d)'
  BY <1>1, <1>2 DEF Goals, AdapterGoal, TargetGoal, Kept
<1>5. SettingsGoal(d)'
  BY <1>1, <1>2 DEF Goals, SettingsGoal, Kept
<1> QED BY <1>3, <1>4, <1>5 DEF Goals

LEMMA ShapeKept ==
    ASSUME NEW d, Kept(d), OwnTx(d)' \subseteq OwnTx(d), OwnShape(d) PROVE OwnShape(d)'
<1>1. Goal(d)' = Goal(d) /\ Wanted(d)' = Wanted(d)
  BY DEF Kept, Bridge, Wanted, Goal
<1> QED BY <1>1 DEF OwnShape, Kept, Registered, Defaulted

LEMMA GoalKept ==
    ASSUME NEW d, Kept(d), OwnTx(d)' \subseteq OwnTx(d), GoalOK(d),
           disturbed \subseteq disturbed', spoilt \subseteq spoilt',
           Active(d) /\ op[d].kind # "Preflight" /\ d \notin disturbed' \cup spoilt' /\ Goals(d)
           => Goals(d)'
    PROVE  GoalOK(d)'
<1>1. OwnShape(d) => OwnShape(d)'
  BY ShapeKept
<1> QED BY <1>1 DEF GoalOK, Kept, Active

\* Only the call itself has written to the route, and its transaction is mined.
LEMMA GoalsMined ==
    ASSUME RouteTypes, NEW d \in Calls, NEW n \in Side, Mine(n), Head(pool[n]).by = d, Kept(d),
           Active(d), OwnShape(d), Goals(d)
    PROVE  Goals(d)'
<1> DEFINE h == Head(pool[n])
<1>1. Mined(n) /\ Apply(h)
  BY DEF Mine, Mined
<1>2. h \in Txs
  BY <1>1, MinedPool
<1>3. OwnTx(d)' \subseteq OwnTx(d) /\ OwnTx(d) \subseteq OwnTx(d)' \cup {h} /\ h \in OwnTx(d)
  BY <1>1, OwnMined
<1>4. /\ Bridge(d)' = Bridge(d) /\ Wanted(d)' = Wanted(d) /\ SeenAdapter(d)' = SeenAdapter(d)
      /\ \A x : SetOn(d, x)' = SetOn(d, x)
  BY DEF Kept, Bridge, Wanted, SeenAdapter, SetOn
<1>5. /\ h.kind \in {"adapter", "default", "set"} /\ h.b \in Bridges
      /\ (h.kind = "adapter" => h.addr # Zero)
      /\ adapter \in [Bridges -> Adapters \cup {Zero}] /\ 0 \in Bridges /\ 2 \in Bridges
  BY <1>2 DEF Txs, RouteTypes, Bridges
<1>6. /\ h.kind = "adapter" =>
            /\ op[d].kind \in {"Register", "AutoFix", "E2E"} /\ h.b = Goal(d) /\ h.addr = Wanted(d)
            /\ at[d] >= Registered(op[d]) /\ Pending(d, "adapter")
      /\ h.kind = "default" =>
            /\ op[d].kind \in {"SetDefault", "AutoFix", "E2E"} /\ h.b = Goal(d)
            /\ at[d] >= Defaulted(op[d])
  BY <1>3 DEF OwnShape, Pending
<1>7. /\ op[d] \in Ops[d] /\ (op[d].b = Unset => op[d].kind = "AutoFix")
      /\ at[d] \in Nat
  BY AskedOp DEF RouteTypes, CallTypes, Active
<1>8. /\ \A k : Pending(d, k) => Pending(d, k)' \/ h.kind = k
      /\ \A k : Pending(d, k)' => Pending(d, k)
  BY <1>3 DEF Pending
<1>9. /\ adapter' = IF h.kind = "adapter" THEN [adapter EXCEPT ![h.b] = h.addr] ELSE adapter
      /\ default' = IF h.kind = "default" THEN h.b ELSE default
      /\ settings' = IF h.kind = "set" THEN settings \cup ({h.addr} \X h.names) ELSE settings
  BY <1>1 DEF Apply
<1> HIDE DEF h
<1>10. op[d].kind # "AutoFix" => Bridge(d) = op[d].b
  BY <1>7 DEF Bridge
<1>11. RegisterGoal(d)'
  BY <1>4, <1>5, <1>6, <1>8, <1>9, <1>10 DEF Goals, RegisterGoal, Kept, Goal, Wanted
<1>12. DefaultGoal(d)'
  BY <1>4, <1>5, <1>6, <1>7, <1>8, <1>9, <1>10 DEF Goals, DefaultGoal, Kept, Goal, Defaulted
<1>13. AdapterGoal(d)'
  BY <1>4, <1>5, <1>6, <1>7, <1>8, <1>9 DEF Goals, AdapterGoal, Kept, Goal, Wanted, Registered
<1>14. TargetGoal(d)'
  BY <1>4, <1>5, <1>6, <1>7, <1>8, <1>9 DEF Goals, TargetGoal, Kept, Goal, Wanted, Registered
<1>15. SettingsGoal(d)'
  <2>1. \A a, x : SetPending(OwnTx(d), a, x) => SetPending(OwnTx(d)', a, x) \/ <<a, x>> \in settings'
    BY <1>3, <1>9 DEF SetPending
  <2>2. settings \subseteq settings'
    BY <1>9
  <2> QED BY <1>4, <2>1, <2>2 DEF Goals, SettingsGoal, Kept
<1> QED BY <1>11, <1>12, <1>13, <1>14, <1>15 DEF Goals

LEMMA GoalChain == ASSUME GoalInv, ChainStep \/ UNCHANGED routeVars PROVE GoalInv'
<1>1. RouteTypes /\ RouteTypes' /\ \A d \in Calls : Kept(d)
  BY ChainTypes, ChainKeeps DEF GoalInv, RouteTypes
<1>2. ASSUME NEW n \in Side, Mine(n), NEW d \in Calls PROVE GoalOK(d)'
  <2>1. Mined(n) /\ disturbed' = disturbed \cup (Writing \ {Head(pool[n]).by}) /\ spoilt' = spoilt
    BY <1>2 DEF Mine, Mined
  <2>2. OwnTx(d)' \subseteq OwnTx(d)
    BY <1>1, <2>1, OwnMined
  <2>3. ASSUME Active(d), op[d].kind # "Preflight", d \notin disturbed' \cup spoilt', Goals(d)
        PROVE  Goals(d)'
    <3>1. Head(pool[n]).by = d
      BY <2>1, <2>3 DEF Writing, Active
    <3>2. OwnShape(d)
      BY <2>3 DEF GoalInv, GoalOK
    <3> QED BY <1>1, <1>2, <2>3, <3>1, <3>2, GoalsMined
  <2> QED BY <1>1, <2>1, <2>2, <2>3, GoalKept DEF GoalInv
<1>3. ASSUME NEW n \in Side, Revert(n), NEW d \in Calls PROVE GoalOK(d)'
  <2>1. /\ Mined(n) /\ disturbed' = disturbed /\ spoilt' = spoilt \cup {Head(pool[n]).by}
        /\ UNCHANGED <<adapter, default, settings>>
    BY <1>3 DEF Revert, Mined, route
  <2>2. OwnTx(d)' \subseteq OwnTx(d) /\ OwnTx(d) \subseteq OwnTx(d)' \cup {Head(pool[n])}
    BY <1>1, <2>1, OwnMined
  <2>3. d \notin spoilt' => OwnTx(d)' = OwnTx(d)
    BY <2>1, <2>2 DEF OwnTx
  <2> QED BY <1>1, <2>1, <2>2, <2>3, GoalKept, GoalsKept DEF GoalInv
<1>4. ASSUME NEW b, QuotesChange(b) \/ UNCHANGED routeVars, NEW d \in Calls PROVE GoalOK(d)'
  <2>1. UNCHANGED <<adapter, default, settings, disturbed, spoilt, pool>>
    BY <1>4 DEF QuotesChange, routeVars, route, chains, history
  <2>2. OwnTx(d)' = OwnTx(d)
    BY <2>1 DEF OwnTx, PoolSet
  <2> QED BY <1>1, <2>1, <2>2, GoalKept, GoalsKept DEF GoalInv
<1> QED BY <1>1, <1>2, <1>3, <1>4 DEF ChainStep, Side, GoalInv

\* Where the setters stand in a script.
LEMMA SetterPlaces ==
    ASSUME NEW c \in Calls, NEW o \in Ops[c], NEW i \in 1 .. Len(Scripts[o]),
           Scripts[o][i].do \in Setting
    PROVE  /\ o.kind \in {"AutoFix", "E2E", "Config", "none"} /\ i > 1
           /\ o.kind = "AutoFix" => i > 5
           /\ o.kind = "E2E" => i > 2 /\ ("default" \in o.names => i > 3)
<1>1. Place(o, i, Scripts[o][i].do)
  BY StepPlaces
<1> QED BY <1>1 DEF Place, Setting

\* Before its first setter a call has set nothing.
LEMMA NothingSet ==
    ASSUME NEW c \in Calls, op'[c] \in Ops[c], at'[c] \in Nat,
           at'[c] <= IF op'[c].kind = "AutoFix" THEN 6 ELSE 2
    PROVE  SettingsGoal(c)'
<1>1. ASSUME NEW i \in 1 .. Len(Scripts[op'[c]]), Scripts[op'[c]][i].do \in Setting
      PROVE  ~(i < at'[c])
  <2>1. i > 1 /\ (op'[c].kind = "AutoFix" => i > 5)
    BY <1>1, SetterPlaces
  <2> QED BY <2>1
<1> QED BY <1>1 DEF SettingsGoal

\* The first step of a script that changes what its transactions are for.
LEMMA GoalReads ==
    ASSUME GoalInv, NEW c \in Calls,
           \/ ReadDefault(c) \/ ReadRest(c) \/ Recheck(c) \/ Rows(c)
           \/ FindAdapter(c) \/ FindHyperbridge(c) \/ FindSender(c)
    PROVE  GoalOK(c)'
<1>1. /\ RouteTypes /\ CallTypes(c) /\ DomainsOK /\ GoalOK(c)
  BY DEF GoalInv, RouteTypes
<1>2. /\ UNCHANGED <<adapter, default, settings, disturbed, spoilt, pool, pc, op, tries>>
      /\ misread \subseteq misread'
  BY DEF ReadDefault, ReadRest, Recheck, Rows, FindAdapter, FindHyperbridge, FindSender, route,
         chains, history, Answered
<1>3. OwnTx(c)' = OwnTx(c) /\ \A k : Pending(c, k)' = Pending(c, k)
  BY <1>2 DEF OwnTx, PoolSet, Pending
<1>4. /\ pc[c] = "running" /\ at[c] <= Len(Scripts[op[c]]) /\ Active(c) /\ op[c] \in Ops[c]
      /\ at[c] \in Nat /\ Len(Scripts[op[c]]) \in Nat /\ Bridge(c) \in Bridges \cup {Unset}
  BY <1>1, ScriptLength, AskedOp DEF ReadDefault, ReadRest, Recheck, Rows, FindAdapter, FindHyperbridge,
         FindSender, AtStep, CallTypes, Active, Bridge
<1>5. /\ OwnShape(c)
      /\ op[c].kind # "Preflight" /\ c \notin disturbed \cup spoilt \cup misread => Goals(c)
  BY <1>1, <1>4 DEF GoalOK
<1>6. ASSUME NEW d, AtStep(c, d)
      PROVE  Place(op[c], at[c], d) /\ (d \notin {"register", "default"} \cup Setting => tries[c] = 0)
  BY <1>1, <1>4, <1>6, AtPlace DEF AtStep
<1>7. ASSUME OwnShape(c)',
             op[c].kind # "Preflight" /\ c \notin disturbed \cup spoilt \cup misread' => Goals(c)'
      PROVE  GoalOK(c)'
  BY <1>2, <1>4, <1>7 DEF GoalOK
<1>8. ASSUME at[c] <= 2, op[c].kind \in {"AutoFix", "E2E", "Config", "none", "Preflight"}
      PROVE  \A tx \in OwnTx(c) : tx.kind \notin {"adapter", "default"}
  BY <1>4, <1>5, <1>8 DEF OwnShape, Registered, Defaulted
<1>9. CASE op[c].kind = "Preflight"
  <2>1. OwnShape(c)'
    BY <1>2, <1>3, <1>5, <1>9 DEF OwnShape
  <2> QED BY <1>7, <1>9, <2>1
<1>10. CASE op[c].kind = "AutoFix" /\ ReadDefault(c)
  <2>1. at[c] = 1 /\ at'[c] = 2 /\ view'[c].default = default
    BY <1>1, <1>6, <1>10 DEF ReadDefault, Place, Advance, DomainsOK, NoView
  <2>2. OwnShape(c)'
    BY <1>3, <1>8, <1>10, <2>1 DEF OwnShape
  <2>3. SettingsGoal(c)'
    BY <1>2, <1>4, <2>1, NothingSet
  <2>4. Goals(c)'
    BY <1>2, <1>10, <2>1, <2>3 DEF Goals, RegisterGoal, DefaultGoal, AdapterGoal, TargetGoal
  <2> QED BY <1>7, <2>2, <2>4
<1>11. CASE op[c].kind = "AutoFix" /\ ReadRest(c)
  <2>0. /\ view'[c].default = view[c].default
        /\ (c \notin misread' => view'[c].adapter = adapter)
    BY <1>1, <1>11, ReadStatus, StatusAdapters DEF RouteTypes
  <2>1. /\ at[c] = 2 /\ at'[c] = 3 /\ view'[c].default = view[c].default /\ tries[c] = 0
    BY <1>1, <1>6, <1>11, <2>0 DEF ReadRest, Place, Advance, DomainsOK, Setting
  <2>2. OwnShape(c)'
    BY <1>3, <1>8, <1>11, <2>1 DEF OwnShape
  <2>3. SettingsGoal(c)'
    BY <1>2, <1>4, <1>11, <2>1, NothingSet
  <2>4. DefaultGoal(c) => DefaultGoal(c)'
    BY <1>2, <1>11, <2>1 DEF DefaultGoal
  <2>5. RegisterGoal(c)' /\ TargetGoal(c)' /\ (c \notin misread' => AdapterGoal(c)')
    BY <1>2, <1>4, <1>11, <2>0, <2>1 DEF RegisterGoal, AdapterGoal, TargetGoal
  <2> QED BY <1>2, <1>5, <1>7, <2>2, <2>3, <2>4, <2>5 DEF Goals
<1>12. CASE Recheck(c) \/ Rows(c) \/ (ReadDefault(c) /\ op[c].kind # "AutoFix")
            \/ (ReadRest(c) /\ op[c].kind # "AutoFix")
  <2>1. op[c].kind = "Preflight"
    BY <1>6, <1>12 DEF Recheck, Rows, ReadDefault, ReadRest, Place
  <2> QED BY <1>9, <2>1
<1>13. CASE FindAdapter(c)
  <2>1. /\ op[c].kind \in {"Config", "none"} /\ at[c] = 1 /\ at'[c] = 2
        /\ target'[c] = adapter[op[c].b]
    BY <1>1, <1>6, <1>13 DEF FindAdapter, Place, Advance, DomainsOK
  <2>2. OwnShape(c)'
    BY <1>3, <1>8, <2>1 DEF OwnShape
  <2>3. SettingsGoal(c)'
    BY <1>2, <1>4, <2>1, NothingSet
  <2>4. Goals(c)'
    BY <1>2, <2>1, <2>3 DEF Goals, RegisterGoal, DefaultGoal, AdapterGoal, TargetGoal
  <2> QED BY <1>7, <2>2, <2>4
<1>14. CASE FindSender(c)
  <2>1. op[c].kind = "E2E" /\ at[c] = 1 /\ at'[c] = 2 /\ view'[c].adapter = adapter
    BY <1>1, <1>6, <1>14 DEF FindSender, Place, Advance, DomainsOK, NoView
  <2>2. OwnShape(c)'
    BY <1>3, <1>8, <2>1 DEF OwnShape
  <2>3. SettingsGoal(c)'
    BY <1>2, <1>4, <2>1, NothingSet
  <2>4. Goals(c)'
    BY <1>2, <2>1, <2>3 DEF Goals, RegisterGoal, DefaultGoal, AdapterGoal, TargetGoal
  <2> QED BY <1>7, <2>2, <2>4
<1>15. CASE FindHyperbridge(c)
  <2>1. op[c].kind = "AutoFix" /\ at[c] = 5 /\ view' = view
    BY <1>6, <1>15 DEF FindHyperbridge, Place
  <2>2. Bridge(c)' = Bridge(c) /\ Goal(c)' = Goal(c) /\ Wanted(c)' = Wanted(c)
    BY <1>2, <2>1 DEF Bridge, Goal, Wanted
  <2>3. /\ at'[c] \in Nat /\ at'[c] >= 6
        /\ Bridge(c) = 0 => at'[c] = 6 /\ target'[c] = adapter[0] /\ adapter[0] # Zero
    BY <1>1, <1>4, <1>15, <2>1 DEF FindHyperbridge, Advance, DomainsOK
  <2>4. OwnShape(c)'
    BY <1>2, <1>3, <1>4, <1>5, <2>1, <2>2, <2>3 DEF OwnShape, Registered, Defaulted
  <2>5. SettingsGoal(c)'
    <3>1. CASE Bridge(c) = 0
      BY <1>2, <1>4, <2>1, <2>3, <3>1, NothingSet
    <3>2. CASE Bridge(c) # 0
      BY <1>2, <2>1, <2>2, <3>2 DEF SettingsGoal
    <3> QED BY <3>1, <3>2
  <2>6. ASSUME Goals(c) PROVE Goals(c)'
    <3>1. DefaultGoal(c)' /\ RegisterGoal(c)'
      BY <1>2, <1>3, <2>1, <2>2, <2>3, <2>6 DEF Goals, DefaultGoal, RegisterGoal
    <3>2. AdapterGoal(c)'
      BY <1>2, <1>3, <2>1, <2>2, <2>3, <2>6 DEF Goals, AdapterGoal
    <3>3. TargetGoal(c)'
      BY <1>2, <1>3, <2>1, <2>2, <2>3, <2>6 DEF Goals, AdapterGoal, TargetGoal
    <3> QED BY <2>5, <3>1, <3>2, <3>3 DEF Goals
  <2> QED BY <1>2, <1>5, <1>7, <2>4, <2>6
<1> QED BY <1>10, <1>11, <1>12, <1>13, <1>14, <1>15

\* A call goes on to its next step; if the last one was a setter, the setting is
\* there or its transaction waits.
LEMMA SettingsAdvance ==
    ASSUME NEW c, op' = op, view' = view, target' = target, settings' = settings,
           at[c] \in Nat, at'[c] = at[c] + 1, OwnTx(c) \subseteq OwnTx(c)', SettingsGoal(c),
           Step(c).do \in Setting => \A n \in Step(c).names :
              LET a == SetOn(c, Step(c).do) IN <<a, n>> \in settings \/ SetPending(OwnTx(c)', a, n)
    PROVE  SettingsGoal(c)'
<1>1. Bridge(c)' = Bridge(c) /\ \A x : SetOn(c, x)' = SetOn(c, x)
  BY DEF Bridge, SetOn
<1>2. \A a, n : SetPending(OwnTx(c), a, n) => SetPending(OwnTx(c)', a, n)
  BY DEF SetPending
<1>3. \A i \in 1 .. Len(Scripts[op[c]]) : i < at'[c] => i < at[c] \/ i = at[c]
  OBVIOUS
<1> SUFFICES ASSUME op[c].kind = "AutoFix" => Bridge(c) = 0,
                    NEW i \in 1 .. Len(Scripts[op[c]]), i < at'[c],
                    Scripts[op[c]][i].do \in Setting, NEW n \in Scripts[op[c]][i].names
             PROVE  LET a == SetOn(c, Scripts[op[c]][i].do)
                    IN  <<a, n>> \in settings \/ SetPending(OwnTx(c)', a, n)
  BY <1>1 DEF SettingsGoal
<1>4. CASE i < at[c]
  BY <1>2, <1>4 DEF SettingsGoal
<1>5. CASE i = at[c]
  BY <1>5 DEF Step
<1> QED BY <1>3, <1>4, <1>5

LEMMA GoalSkips == ASSUME GoalInv, NEW c \in Calls, SkipStep(c) PROVE GoalOK(c)'
<1>1. RouteTypes /\ CallTypes(c) /\ DomainsOK /\ GoalOK(c)
  BY DEF GoalInv, RouteTypes
<1>2. /\ UNCHANGED <<adapter, default, settings, disturbed, spoilt, misread, pool, pc, op, tries,
                     view, target>>
      /\ at'[c] = at[c] + 1 /\ at[c] \in Nat /\ pc[c] = "running" /\ InTx(c) /\ Skipped(c)
  BY <1>1 DEF SkipStep, Transacting, InTx, Advance, DomainsOK, route, chains, history, locals,
              CallTypes
<1>3. OwnTx(c)' = OwnTx(c) /\ \A k : Pending(c, k)' = Pending(c, k)
  BY <1>2 DEF OwnTx, PoolSet, Pending
<1>4. /\ Bridge(c)' = Bridge(c) /\ Goal(c)' = Goal(c) /\ Wanted(c)' = Wanted(c)
      /\ SeenAdapter(c)' = SeenAdapter(c)
  BY <1>2 DEF Bridge, Goal, Wanted, SeenAdapter
<1>5. /\ OwnShape(c)
      /\ op[c].kind # "Preflight" /\ c \notin disturbed \cup spoilt \cup misread => Goals(c)
  BY <1>1, <1>2 DEF GoalOK, Active
<1>6. OwnShape(c)'
  BY <1>2, <1>3, <1>4, <1>5 DEF OwnShape, Registered, Defaulted
<1>7. Place(op[c], at[c], Step(c).do) /\ op[c] \in Ops[c]
  BY <1>1, <1>2, AtPlace DEF InTx
<1> SUFFICES ASSUME Goals(c) PROVE Goals(c)'
  BY <1>2, <1>5, <1>6 DEF GoalOK
<1>8. CASE Step(c).do = "register"
  <2>1. /\ op[c].kind = "AutoFix" /\ at[c] = 3 /\ SeenAdapter(c) # Zero
        \/ /\ op[c].kind = "E2E" /\ at[c] = 2
           /\ ("register" \in op[c].names => view[c].adapter[2] = target[c])
    BY <1>2, <1>7, <1>8 DEF Place, Skipped, RegisterSkipped, Setting
  <2>2. SettingsGoal(c)'
    BY <1>2, <1>3, <1>8, SettingsAdvance DEF Goals, Setting
  <2>3. ~Pending(c, "adapter")
    BY <1>5, <2>1 DEF OwnShape, Pending, Registered
  <2>4. Bridge(c) \in 0 .. 2 => SeenAdapter(c) = view[c].adapter[Bridge(c)]
    BY DEF SeenAdapter
  <2>5. DefaultGoal(c)' /\ RegisterGoal(c)' /\ TargetGoal(c)'
    BY <1>2, <1>3, <1>4, <2>1 DEF Goals, DefaultGoal, RegisterGoal, TargetGoal
  <2>6. AdapterGoal(c)'
    BY <1>2, <1>3, <1>4, <2>1, <2>3, <2>4 DEF Goals, AdapterGoal
  <2> QED BY <2>2, <2>5, <2>6 DEF Goals
<1>9. CASE Step(c).do = "default"
  <2>1. \/ op[c].kind = "AutoFix" /\ at[c] = 4 /\ view[c].default = Bridge(c)
        \/ op[c].kind = "E2E" /\ at[c] = 3 /\ default = 2
    BY <1>2, <1>7, <1>9 DEF Place, Skipped, DefaultSkipped, Setting
  <2>2. SettingsGoal(c)'
    BY <1>2, <1>3, <1>9, SettingsAdvance DEF Goals, Setting
  <2>3. DefaultGoal(c)' /\ RegisterGoal(c)' /\ TargetGoal(c)'
    BY <1>2, <1>3, <1>4, <2>1 DEF Goals, DefaultGoal, RegisterGoal, TargetGoal
  <2>4. AdapterGoal(c)'
    BY <1>2, <1>3, <1>4, <2>1 DEF Goals, AdapterGoal
  <2> QED BY <2>2, <2>3, <2>4 DEF Goals
<1>10. CASE Step(c).do \in Setting
  <2>1. Step(c).do \in {"setNew", "remoteNew"} /\ SetSkipped(c)
    BY <1>2, <1>10 DEF Skipped, SetSkipped, Setting
  <2>2. op[c].kind = "E2E" /\ at[c] > 2 /\ ("default" \in op[c].names => at[c] > 3)
    BY <1>7, <2>1 DEF Place
  <2>3. \A n \in Step(c).names : <<SetOn(c, Step(c).do), n>> \in settings
    BY <2>1 DEF SetSkipped, SetOn
  <2>4. SettingsGoal(c)'
    BY <1>2, <1>3, <2>3, SettingsAdvance DEF Goals
  <2>5. DefaultGoal(c)' /\ RegisterGoal(c)' /\ TargetGoal(c)'
    BY <1>2, <1>3, <1>4, <2>2 DEF Goals, DefaultGoal, RegisterGoal, TargetGoal
  <2>6. AdapterGoal(c)'
    BY <1>2, <1>3, <1>4, <2>2 DEF Goals, AdapterGoal
  <2> QED BY <2>4, <2>5, <2>6 DEF Goals
<1> QED BY <1>2, <1>8, <1>9, <1>10 DEF InTx

LEMMA GoalTries ==
    ASSUME GoalInv, NEW c \in Calls, PickNonce(c) \/ (NonceTaken(c) /\ pc'[c] # "failed")
    PROVE  GoalOK(c)'
<1>1. RouteTypes /\ CallTypes(c) /\ DomainsOK /\ GoalOK(c)
  BY DEF GoalInv, RouteTypes
<1>2. /\ UNCHANGED <<adapter, default, settings, disturbed, spoilt, misread, pool, op, view, target,
                     at>>
      /\ pc[c] \in {"running", "sending"} /\ pc'[c] \in {"running", "sending"} /\ InTx(c)
      /\ at[c] \in Nat
  BY <1>1 DEF PickNonce, NonceTaken, Abandon, Transacting, InTx, Advance, DomainsOK, route, chains,
              history, CallTypes
<1>3. OwnTx(c)' = OwnTx(c) /\ \A k : Pending(c, k)' = Pending(c, k)
  BY <1>2 DEF OwnTx, PoolSet, Pending
<1>4. /\ Bridge(c)' = Bridge(c) /\ Goal(c)' = Goal(c) /\ Wanted(c)' = Wanted(c)
      /\ SeenAdapter(c)' = SeenAdapter(c) /\ \A x : SetOn(c, x)' = SetOn(c, x)
  BY <1>2 DEF Bridge, Goal, Wanted, SeenAdapter, SetOn
<1>5. /\ OwnShape(c)
      /\ op[c].kind # "Preflight" /\ c \notin disturbed \cup spoilt \cup misread => Goals(c)
  BY <1>1, <1>2 DEF GoalOK, Active
<1>6. OwnShape(c)'
  BY <1>2, <1>3, <1>4, <1>5 DEF OwnShape, Registered, Defaulted
<1> SUFFICES ASSUME Goals(c) PROVE Goals(c)'
  BY <1>2, <1>5, <1>6 DEF GoalOK
<1>7. op[c].kind = "AutoFix" /\ at[c] = 3 => SeenAdapter(c) = Zero
  <2> SUFFICES ASSUME op[c].kind = "AutoFix", at[c] = 3, pc[c] = "running", tries[c] = 0
               PROVE  SeenAdapter(c) = Zero
    BY <1>2 DEF Goals, AdapterGoal
  <2>1. PickNonce(c)
    BY DEF NonceTaken
  <2>2. ~Skipped(c)
    BY <2>1 DEF PickNonce, SetAgain
  <2>3. Step(c).do = "register"
    BY <1>1, <1>2, FixTx
  <2> QED BY <2>2, <2>3 DEF Skipped, RegisterSkipped
<1>8. DefaultGoal(c)' /\ RegisterGoal(c)' /\ TargetGoal(c)'
  BY <1>2, <1>3, <1>4 DEF Goals, DefaultGoal, RegisterGoal, TargetGoal
<1>9. AdapterGoal(c)'
  BY <1>2, <1>3, <1>4, <1>7 DEF Goals, AdapterGoal
<1>10. SettingsGoal(c)'
  <2>1. \A a, n : SetPending(OwnTx(c)', a, n) = SetPending(OwnTx(c), a, n)
    BY <1>3 DEF SetPending
  <2> QED BY <1>2, <1>4, <2>1 DEF Goals, SettingsGoal
<1> QED BY <1>8, <1>9, <1>10 DEF Goals

LEMMA GoalSends == ASSUME GoalInv, NEW c \in Calls, CallStep(c), Sends(c) PROVE GoalOK(c)'
<1> DEFINE tx == TxOf(c)
<1>1. RouteTypes /\ CallTypes(c) /\ DomainsOK /\ GoalOK(c)
  BY DEF GoalInv, RouteTypes
<1>2. /\ UNCHANGED <<adapter, default, settings, disturbed, op, view, target>>
      /\ misread \subseteq misread' /\ at'[c] = at[c] + 1 /\ at[c] \in Nat /\ pc[c] = "sending" /\ pc'[c] = "running"
      /\ InTx(c) /\ tries'[c] = 0
  BY <1>1, CallKeeps DEF Sends, route, CallTypes
<1>3. /\ OwnTx(c)' \subseteq OwnTx(c) \cup {tx} /\ tx \in OwnTx(c)' /\ spoilt \subseteq spoilt'
      /\ (c \notin spoilt' => OwnTx(c) \subseteq OwnTx(c)')
  BY <1>1, OwnSent, SentPlace
<1>4. /\ Bridge(c)' = Bridge(c) /\ Goal(c)' = Goal(c) /\ Wanted(c)' = Wanted(c)
      /\ SeenAdapter(c)' = SeenAdapter(c)
  BY <1>2 DEF Bridge, Goal, Wanted, SeenAdapter
<1>5. /\ OwnShape(c)
      /\ op[c].kind # "Preflight" /\ c \notin disturbed \cup spoilt \cup misread => Goals(c)
  BY <1>1, <1>2 DEF GoalOK, Active
<1>6. Place(op[c], at[c], Step(c).do) /\ op[c] \in Ops[c]
  BY <1>1, <1>2, AtPlace DEF InTx
<1>7. /\ Step(c).do = "register" => /\ tx.kind = "adapter" /\ tx.b = Goal(c) /\ tx.addr = Wanted(c)
      /\ Step(c).do = "default" => tx.kind = "default" /\ tx.b = Goal(c)
      /\ Step(c).do \in Setting => /\ tx.kind = "set" /\ tx.names = Step(c).names
                                   /\ tx.addr = SetOn(c, Step(c).do)
  BY DEF TxOf, Goal, Wanted, Setting, SetOn
<1> HIDE DEF tx
<1>8. OwnShape(c)'
  <2>1. /\ tx.kind = "adapter" => /\ op[c].kind \in {"Register", "AutoFix", "E2E"}
                                  /\ tx.b = Goal(c) /\ tx.addr = Wanted(c)
                                  /\ at'[c] >= Registered(op[c])
        /\ tx.kind = "default" => /\ op[c].kind \in {"SetDefault", "AutoFix", "E2E"}
                                  /\ tx.b = Goal(c) /\ at'[c] >= Defaulted(op[c])
    BY <1>2, <1>6, <1>7 DEF Place, InTx, Registered, Defaulted
  <2>2. Registered(op'[c]) = Registered(op[c]) /\ Defaulted(op'[c]) = Defaulted(op[c])
        /\ Registered(op[c]) \in Nat /\ Defaulted(op[c]) \in Nat
    BY <1>2 DEF Registered, Defaulted
  <2> QED BY <1>2, <1>3, <1>4, <1>5, <2>1, <2>2 DEF OwnShape
<1> SUFFICES ASSUME Goals(c), c \notin spoilt' PROVE Goals(c)'
  BY <1>2, <1>3, <1>5, <1>8 DEF GoalOK
<1>9. /\ \A k : Pending(c, k)' => Pending(c, k) \/ tx.kind = k
      /\ \A k : Pending(c, k) \/ tx.kind = k => Pending(c, k)'
  BY <1>3 DEF Pending
<1>10. SettingsGoal(c)'
  <2>1. Step(c).do \in Setting => \A n \in Step(c).names :
           LET a == SetOn(c, Step(c).do) IN <<a, n>> \in settings \/ SetPending(OwnTx(c)', a, n)
    BY <1>3, <1>7 DEF SetPending
  <2> QED BY <1>2, <1>3, <2>1, SettingsAdvance DEF Goals
<1>11. CASE Step(c).do = "register"
  <2>1. <<op[c].kind, at[c]>> \in {<<"Register", 1>>, <<"AutoFix", 3>>, <<"E2E", 2>>}
    BY <1>6, <1>11 DEF Place
  <2>2. Pending(c, "adapter")' /\ \A k : k # "adapter" => (Pending(c, k)' <=> Pending(c, k))
    BY <1>7, <1>9, <1>11
  <2>3. Bridge(c) \in 0 .. 2 => SeenAdapter(c) = view[c].adapter[Bridge(c)]
    BY DEF SeenAdapter
  <2>4. DefaultGoal(c)' /\ RegisterGoal(c)' /\ TargetGoal(c)'
    BY <1>2, <1>4, <2>1, <2>2 DEF Goals, DefaultGoal, RegisterGoal, TargetGoal
  <2>5. AdapterGoal(c)'
    BY <1>2, <1>4, <2>1, <2>2, <2>3 DEF Goals, AdapterGoal
  <2> QED BY <1>10, <2>4, <2>5 DEF Goals
<1>12. CASE Step(c).do = "default"
  <2>1. \/ <<op[c].kind, at[c]>> \in {<<"SetDefault", 1>>, <<"AutoFix", 4>>}
        \/ op[c].kind = "E2E" /\ at[c] = 3
    BY <1>6, <1>12 DEF Place
  <2>2. Pending(c, "default")' /\ \A k : k # "default" => (Pending(c, k)' <=> Pending(c, k))
    BY <1>7, <1>9, <1>12
  <2>3. DefaultGoal(c)' /\ RegisterGoal(c)' /\ TargetGoal(c)'
    BY <1>2, <1>4, <2>1, <2>2 DEF Goals, DefaultGoal, RegisterGoal, TargetGoal
  <2>4. AdapterGoal(c)'
    BY <1>2, <1>4, <2>1, <2>2 DEF Goals, AdapterGoal
  <2> QED BY <1>10, <2>3, <2>4 DEF Goals
<1>13. CASE Step(c).do \in Setting
  <2>1. /\ op[c].kind \in {"AutoFix", "E2E", "Config", "none"} /\ at[c] > 1
        /\ (op[c].kind = "AutoFix" => at[c] > 5)
        /\ (op[c].kind = "E2E" => at[c] > 2 /\ ("default" \in op[c].names => at[c] > 3))
    BY <1>2, <1>6, <1>13 DEF Place, Setting
  <2>2. \A k : k # "set" => (Pending(c, k)' <=> Pending(c, k))
    BY <1>7, <1>9, <1>13
  <2>3. DefaultGoal(c)' /\ RegisterGoal(c)' /\ TargetGoal(c)'
    BY <1>2, <1>4, <2>1, <2>2 DEF Goals, DefaultGoal, RegisterGoal, TargetGoal
  <2>4. AdapterGoal(c)'
    BY <1>2, <1>4, <2>1, <2>2 DEF Goals, AdapterGoal
  <2> QED BY <1>10, <2>3, <2>4 DEF Goals
<1> QED BY <1>2, <1>11, <1>12, <1>13 DEF InTx

LEMMA GoalOwn == ASSUME GoalInv, NEW c \in Calls, CallStep(c) PROVE GoalOK(c)'
<1>1. RouteTypes /\ CallTypes(c) /\ DomainsOK /\ GoalOK(c)
  BY DEF GoalInv, RouteTypes
<1>2. ASSUME NEW o \in Ops[c], Begin(c, o) PROVE GoalOK(c)'
  <2>1. pc[c] = "idle" /\ op'[c] = o /\ at'[c] = 1 /\ pc'[c] = "running" /\ pool' = pool
    BY <1>1, <1>2 DEF Begin, DomainsOK, chains
  <2>2. OwnTx(c)' = {}
    <3>1. \A n \in Side : \A i \in 1 .. Len(pool[n]) : pool[n][i].by # c
      BY <1>1, <2>1 DEF RouteTypes, PoolTypes
    <3> QED BY <2>1, <3>1 DEF OwnTx, PoolSet, Side
  <2>3. SettingsGoal(c)'
    BY <2>1, NothingSet
  <2>4. Goals(c)'
    BY <2>1, <2>3 DEF Goals, DefaultGoal, RegisterGoal, AdapterGoal, TargetGoal
  <2> QED BY <2>1, <2>2, <2>4 DEF GoalOK, OwnShape
<1>3. CASE Accepted(c) \/ Replaces(c)
  <2>1. Sends(c)
    BY <1>1, <1>3, PoolCases
  <2> QED BY <2>1, GoalSends
<1>4. CASE Finish(c)
  <2>1. /\ UNCHANGED <<adapter, default, settings, disturbed, spoilt, misread, pool, op, view, target,
                       at, tries, nonce, issues, executable>>
        /\ pc[c] = "running" /\ pc'[c] = "ok" /\ at[c] > Len(Scripts[op[c]])
    BY <1>1, <1>4 DEF Finish, DomainsOK, route, chains, history, locals
  <2>2. OwnTx(c)' = OwnTx(c) /\ \A k : Pending(c, k)' = Pending(c, k)
    BY <2>1 DEF OwnTx, PoolSet, Pending
  <2>3. /\ Bridge(c)' = Bridge(c) /\ Goal(c)' = Goal(c) /\ Wanted(c)' = Wanted(c)
        /\ SeenAdapter(c)' = SeenAdapter(c) /\ \A x : SetOn(c, x)' = SetOn(c, x)
    BY <2>1 DEF Bridge, Goal, Wanted, SeenAdapter, SetOn
  <2>4. OwnShape(c)'
    BY <1>1, <2>1, <2>2, <2>3 DEF GoalOK, OwnShape, Active, Registered, Defaulted
  <2>5. ASSUME Goals(c) PROVE Goals(c)'
    <3>1. DefaultGoal(c)' /\ RegisterGoal(c)' /\ TargetGoal(c)'
      BY <2>1, <2>2, <2>3, <2>5 DEF Goals, DefaultGoal, RegisterGoal, TargetGoal
    <3>2. AdapterGoal(c)'
      BY <2>1, <2>2, <2>3, <2>5 DEF Goals, AdapterGoal
    <3>3. SettingsGoal(c)'
      BY <2>1, <2>2, <2>3, <2>5 DEF Goals, SettingsGoal
    <3> QED BY <3>1, <3>2, <3>3 DEF Goals
  <2> QED BY <1>1, <2>1, <2>4, <2>5 DEF GoalOK, Active
<1>5. ASSUME pc'[c] = "failed" PROVE GoalOK(c)'
  BY <1>5 DEF GoalOK, Active
<1>6. ASSUME Refuse(c) \/ Fail(c) PROVE pc'[c] = "failed"
  BY <1>1, <1>6 DEF Refuse, Fail, Abandon, DomainsOK
<1> QED BY <1>2, <1>3, <1>4, <1>5, <1>6, GoalReads, GoalSkips, GoalTries DEF CallStep, Run

LEMMA GoalInvariance == RouteSpec => []GoalInv
<1>1. RouteInit => GoalInv
  BY RouteTypesInit DEF RouteInit, GoalInv, GoalOK, Active
<1>2. ASSUME GoalInv, NEW c \in Calls, CallStep(c) PROVE GoalInv'
  <2>1. RouteTypes /\ RouteTypes' /\ (\A d \in Calls \ {c} : Kept(d))
        /\ UNCHANGED <<adapter, default, settings, disturbed>>
    BY <1>2, CallKeeps, CallRouteTypes DEF GoalInv, RouteTypes, route
  <2>2. ASSUME NEW d \in Calls \ {c} PROVE GoalOK(d)'
    <3>1. /\ spoilt \subseteq spoilt' /\ OwnTx(d)' \subseteq OwnTx(d)
          /\ d \notin spoilt' => OwnTx(d)' = OwnTx(d)
      <4>1. CASE UNCHANGED <<pool, spoilt>>
        BY <4>1 DEF OwnTx, PoolSet
      <4>2. CASE Sends(c)
        BY <1>2, <2>1, <4>2, OwnSent, SentPlace
      <4> QED BY <1>2, <2>1, <4>1, <4>2, PoolCases
    <3>2. Kept(d) /\ GoalOK(d)
      BY <1>2, <2>1 DEF GoalInv
    <3> QED BY <2>1, <3>1, <3>2, GoalKept, GoalsKept
  <2>3. GoalOK(c)'
    BY <1>2, GoalOwn
  <2> QED BY <2>1, <2>2, <2>3 DEF GoalInv
<1>3. GoalInv /\ [RouteNext]_routeVars => GoalInv'
  BY <1>2, GoalChain, StepCases
<1> QED BY <1>1, <1>3, PTL DEF RouteSpec


\* A setting that was asked for is set by a step of the script.
LEMMA SetterOf ==
    ASSUME NEW c \in Calls, NEW o \in Ops[c], o.kind \in {"Config", "E2E", "AutoFix"},
           NEW n \in o.names \cap Names
    PROVE  \E i \in 1 .. Len(Scripts[o]) :
              /\ n \in Scripts[o][i].names /\ Scripts[o][i].do \in Setting
              /\ Scripts[o][i].do \in {"remote", "remoteNew"} <=> n \in Remote
<1>1. o \in Asked /\ n \in InputFields(o) /\ (o.kind # "AutoFix" => o.b \in Bridges)
  BY AskedOp
<1>2. CASE o.kind = "Config"
  <2>1. \E i \in 1 .. Len(Scripts[o]) : /\ n \in Scripts[o][i].names
            /\ Scripts[o][i].do = IF n \in Remote THEN "remote" ELSE "set"
    BY <1>1, <1>2, ConfigScript
  <2> QED BY <2>1 DEF Setting
<1>3. CASE o.kind = "AutoFix"
  <2>1. n \in {"stateMachineId", "destinationContract"}
    BY <1>1, <1>3 DEF InputFields
  <2>2. \E i \in 1 .. Len(Scripts[o]) : n \in Scripts[o][i].names /\ Scripts[o][i].do = "setHyper"
    BY <1>1, <1>3, <2>1, AutoFixScript
  <2> QED BY <2>1, <2>2 DEF Setting, Remote
<1>4. CASE o.kind = "E2E"
  <2>1. n \in {"route", "options", "delegate"} \/ n \in {"peer", "vaultSpender", "gatewayAdapter"}
    BY <1>1, <1>4 DEF InputFields, Flags, Names
  <2>2. CASE n \in {"route", "options", "delegate"}
    <3>1. \E i \in 1 .. Len(Scripts[o]) : n \in Scripts[o][i].names /\ Scripts[o][i].do = "setNew"
      BY <1>1, <1>4, <2>2, E2EScript
    <3> QED BY <2>2, <3>1 DEF Setting, Remote
  <2>3. CASE n \in {"peer", "vaultSpender", "gatewayAdapter"}
    <3>1. \E i \in 1 .. Len(Scripts[o]) : n \in Scripts[o][i].names /\ Scripts[o][i].do = "remoteNew"
      BY <1>1, <1>4, <2>3, E2EScript
    <3> QED BY <2>3, <3>1 DEF Setting, Remote
  <2> QED BY <2>1, <2>2, <2>3
<1> QED BY <1>2, <1>3, <1>4

(* A call that reported success, of which no transaction waits, reverted or   *)
(* was replaced, and since whose start nobody else's was mined, has left the  *)
(* route as it was asked to: the adapter, the default bridge and the settings *)
(* are those of the request, although no step waited for the one before it.   *)
THEOREM SuccessCorrect == RouteSpec => []SuccessIsAchieved
<1>1. GoalInv => SuccessIsAchieved
  <2> SUFFICES ASSUME GoalInv, NEW c \in Calls, pc[c] = "ok",
                      c \notin disturbed \cup spoilt \cup misread,
                      \A n \in {"source", "dest"} : \A i \in 1 .. Len(pool[n]) : pool[n][i].by # c
               PROVE  Achieved(c)
    BY DEF SuccessIsAchieved
  <2> DEFINE o == op[c]
             b == IF o.kind = "E2E" THEN 2 ELSE Bridge(c)
  <2>1. OwnTx(c) = {} /\ \A k : ~Pending(c, k)
    BY DEF OwnTx, PoolSet, Pending
  <2>2. /\ o \in Ops[c] /\ at[c] \in Nat /\ at[c] > Len(Scripts[o]) /\ Len(Scripts[o]) \in Nat
        /\ (o.kind # "Preflight" => Goals(c))
    BY ScriptLength DEF GoalInv, GoalOK, Active, RouteTypes, CallTypes
  <2>3. /\ o \in Asked /\ o.kind \in Kinds /\ o.names \subseteq InputFields(o)
        /\ (o.b = Unset => o.kind = "AutoFix")
    BY <2>2, AskedOp
  <2>4. o.kind \notin {"Config", "E2E", "AutoFix"} => o.names = {}
    BY <2>3 DEF InputFields
  <2>5. o.kind # "AutoFix" => Bridge(c) = o.b
    BY <2>3 DEF Bridge
  <2>6. /\ o.kind \in {"Register", "SetDefault", "Config"} => at[c] >= 2
        /\ o.kind = "AutoFix" => at[c] >= 6
        /\ o.kind = "E2E" => at[c] >= 3 /\ ("default" \in o.names => at[c] >= 4)
    BY <2>2, <2>3, OneStepScript, ConfigScript, AutoFixScript, E2EScript
  <2>7. o.kind = "Register" => adapter[b] = o.addr
    BY <2>1, <2>2, <2>5, <2>6 DEF Goals, RegisterGoal
  <2>8. o.kind = "AutoFix" /\ b \in 0 .. 2 => adapter[b] # Zero
    BY <2>1, <2>2, <2>6 DEF Goals, AdapterGoal
  <2>9. \/ o.kind \in {"SetDefault", "AutoFix"}
        \/ o.kind = "E2E" /\ "default" \in o.names
        => default = b
    BY <2>1, <2>2, <2>5, <2>6 DEF Goals, DefaultGoal
  <2>10. ASSUME NEW n \in o.names \cap Names, o.kind = "AutoFix" => b = 0
         PROVE  <<IF n \in Remote THEN Receiver ELSE target[c], n>> \in settings
    <3>1. o.kind \in {"Config", "E2E", "AutoFix"}
      BY <2>4
    <3>2. PICK i \in 1 .. Len(Scripts[o]) :
             /\ n \in Scripts[o][i].names /\ Scripts[o][i].do \in Setting
             /\ Scripts[o][i].do \in {"remote", "remoteNew"} <=> n \in Remote
      BY <2>2, <3>1, SetterOf
    <3>3. i < at[c]
      BY <2>2
    <3>4. \A a : ~SetPending(OwnTx(c), a, n)
      BY <2>1 DEF SetPending
    <3>5. SettingsGoal(c)
      BY <2>2, <3>1 DEF Goals
    <3>6. <<SetOn(c, Scripts[o][i].do), n>> \in settings
      BY <2>10, <3>2, <3>3, <3>4, <3>5 DEF SettingsGoal
    <3> QED BY <3>2, <3>6 DEF SetOn
  <2>11. \/ o.kind = "Config"
         \/ o.kind = "AutoFix" /\ b = 0
         \/ o.kind = "E2E" /\ "register" \in o.names
         => target[c] = adapter[b]
    BY <2>1, <2>2, <2>5, <2>6 DEF Goals, TargetGoal, AdapterGoal
  <2>12. o.kind = "AutoFix" => o.names \cap Remote = {}
    BY <2>3 DEF InputFields, Remote
  <2>13. Remote \subseteq Names
    BY DEF Remote, Names
  <2>14. \A n \in o.names \cap Remote : <<Receiver, n>> \in settings
    BY <2>10, <2>12, <2>13
  <2>15. \/ o.kind = "Config"
         \/ o.kind = "AutoFix" /\ b = 0
         \/ o.kind = "E2E" /\ "register" \in o.names
         => \A n \in (o.names \cap Names) \ Remote : <<adapter[b], n>> \in settings
    BY <2>10, <2>11
  <2>16. Remote = {"trustedSender", "sourceChainAllowed", "peer", "vaultSpender", "gatewayAdapter"}
    BY DEF Remote
  <2> QED BY <2>7, <2>8, <2>9, <2>14, <2>15, <2>16 DEF Achieved
<1> QED BY <1>1, GoalInvariance, PTL

=============================================================================
