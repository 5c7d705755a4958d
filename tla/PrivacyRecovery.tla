---------------------------- MODULE PrivacyRecovery ----------------------------
(***************************************************************************)
(* A privacy payment settles into an escrow and is forwarded to its        *)
(* receiver; a forward that fails can be retried, claimed or refunded.     *)
(* The server learns of all this from indexer webhooks, which arrive late, *)
(* repeated or out of order, and from reads of the gateway that may fail.  *)
(* It derives a lifecycle stage from what it stored                        *)
(* (internal/usecases/payment_usecase.go, GetPaymentPrivacyStatus and      *)
(* buildPrivacyRecoveryTx) and hands out recovery transactions.            *)
(*                                                                         *)
(* One payment.  The gateway contract is external: its actions are what    *)
(* the getters and the events the code matches on say of it.  It keeps the *)
(* payment under an id of its own, which need not be the payment's UUID.   *)
(***************************************************************************)
EXTENDS Naturals, FiniteSets

CONSTANTS
    Failures,     \* how the indexer reports a failed forward
    MaxFailures   \* bound: forwards that fail

ASSUME FailuresBound == MaxFailures \in Nat \ {0}

\* A report's reason is any wording: the one spelling the code knows ("failed" for
\* PRIVACY_FORWARD_FAILED), another word with PRIVACY in it, or none, with or
\* without REFUND and RETRY.  Revert data is decoded into failure_reason only, so
\* the event's signal may lack what the reason has.
ASSUME FailuresAssumption ==
    Failures \subseteq [status : {"pending", "processing"},
                        signal : {"failed", "privacy", "unmarked"},
                        reason : SUBSET {"failed", "PRIVACY", "REFUND", "RETRY"}]

VARIABLES
    gw,        \* the gateway's state of the payment
    sent,      \* webhooks the indexer has sent: each may arrive, again and again
    status,    \* payments.status
    failure,   \* words of payments.failure_reason the code looks for
    events,    \* signals found in the stored payment_events
    built,     \* recovery transactions handed out, with the id they carry
    shown      \* last answer of GET /:id/privacy-status

privacyVars == <<gw, sent, status, failure, events, built, shown>>
server == <<status, failure, events, built, shown>>

Actions == {"retry", "claim", "refund"}
Failing == {"ForwardFailedRetrying", "Claimable", "Refundable"}

--------------------------------------------------------------------------------
(* Deriving the stage. *)

\* Every signal but two is a string that contains PRIVACY.  "failed" is the one
\* spelling the code knows, PRIVACY_FORWARD_FAILED; "PRIVACY" is any other word
\* for a failure that has PRIVACY in it.
HasPrivacySignal(reason, evs) ==
    reason \cap {"failed", "PRIVACY"} # {} \/ evs \ {"executed", "unmarked"} # {}

\* Faulty variant: a failed forward is looked at before the outcome.
DeriveFailureFirst(st, reason, evs) ==
    CASE "failed" \in reason \cup evs ->
           [privacy |-> TRUE, stage |->
              IF "retry" \in evs THEN "ForwardFailedRetrying"
              ELSE IF st = "failed" \/ "REFUND" \in reason THEN "Refundable" ELSE "Claimable"]
      [] "failed" \notin reason \cup evs /\ evs \cap {"claimed", "refunded"} # {} ->
           [privacy |-> TRUE, stage |-> "Resolved"]
      [] OTHER -> [privacy |-> HasPrivacySignal(reason, evs), stage |-> "PendingOnSource"]

\* Faulty variant: a retry is not offered once a failed forward was retried.
DeriveRetryIsSettled(st, reason, evs) ==
    [privacy |-> HasPrivacySignal(reason, evs),
     stage |-> IF evs \cap {"claimed", "refunded"} # {} THEN "Resolved"
               ELSE IF "retry" \in evs THEN "SettledToStealth"
               ELSE IF "failed" \in reason \cup evs THEN "Claimable"
               ELSE "PendingOnSource"]

\* derivePaymentPrivacyLifecycle, in the order of its early returns.
DerivePaymentPrivacyLifecycle(st, reason, evs) ==
    LET privacy == HasPrivacySignal(reason, evs)
        is(stage) == [privacy |-> TRUE, stage |-> stage]
        or(stage, otherwise) ==
            IF privacy THEN is(stage) ELSE [privacy |-> FALSE, stage |-> otherwise]
    IN  IF evs \cap {"claimed", "refunded"} # {} THEN is("Resolved")
        ELSE IF "failed" \in reason \cup evs THEN
            IF "retry" \in evs THEN is("ForwardFailedRetrying")
            ELSE IF st = "failed" \/ "REFUND" \in reason THEN is("Refundable")
            ELSE is("Claimable")
        ELSE IF "retry" \in evs THEN is("ForwardFailedRetrying")
        ELSE IF "completed" \in evs THEN is("ForwardedFinal")
        ELSE IF "requested" \in evs THEN is("SettledToStealth")
        ELSE IF st = "completed" /\ "executed" \in evs THEN or("SettledToStealth", "NotPrivacy")
        ELSE IF "executed" \in evs \/ st = "processing" THEN or("SettledToStealth", "Unknown")
        ELSE or("PendingOnSource", "Unknown")

Derived == DerivePaymentPrivacyLifecycle(status, failure, events)

\* Faulty variant: a settled payment is taken for a forwarded one.
GatewaySettledIsFinal(st, reason, g, d) ==
    CASE g.done \/ (g.settled /\ g.retries = 0) -> "ForwardedFinal"
      [] ~g.done /\ g.retries > 0 -> "Claimable"
      [] OTHER -> "PendingOnSource"

\* deriveGatewayPrivacyLifecycle: the stage by the gateway's getters.
DeriveGatewayPrivacyLifecycle(st, reason, g, d) ==
    CASE g.done -> "ForwardedFinal"
      [] ~g.done /\ g.retries > 0 ->
           IF st \in {"failed", "refunded"} \/ "REFUND" \in reason THEN "Refundable"
           ELSE IF d.stage = "ForwardFailedRetrying" \/ "RETRY" \in reason
             THEN "ForwardFailedRetrying"
           ELSE "Claimable"
      [] ~g.done /\ g.retries = 0 /\ g.settled -> "SettledToStealth"
      [] OTHER -> "PendingOnSource"

\* The getters are asked under the payment's UUID: under another id than the
\* gateway's they answer zeros.
Nothing == [intent |-> FALSE, settled |-> FALSE, done |-> FALSE, retries |-> 0]
FetchGatewayPrivacyState(g) ==
    IF g.uuid THEN [k \in DOMAIN Nothing |-> g[k]] ELSE Nothing

\* The code believes the getters when they know of an intent, or it already took
\* the payment for a privacy one.
GatewayKnows(g, d) == d.privacy \/ g.intent \/ g.done \/ g.retries > 0

\* Faulty variant: a refund is open to whoever may claim.
ValidateRefundLikeClaim(stage, action) ==
    IF action = "retry" THEN stage \in Failing
    ELSE stage \in {"Claimable", "Refundable", "ForwardFailedRetrying", "SettledToStealth"}

ValidatePrivacyRecoveryStage(stage, action) ==
    CASE action = "retry" -> stage \in Failing
      [] action = "claim" ->
           stage \in {"Claimable", "ForwardFailedRetrying", "SettledToStealth"}
      [] OTHER -> stage \in {"Refundable", "ForwardFailedRetrying"}

\* The request may name the on-chain id; else it is the first 32-byte word in the
\* latest event that has one, which may also be a transaction hash.
ResolveOnchainPaymentID(named, evs) ==
    IF named THEN {"own"} ELSE IF evs # {} THEN {"own", "other"} ELSE {}

--------------------------------------------------------------------------------
(* The gateway contract (external) and the indexer's reports of it. *)

Message(type, st, signal, reason) ==
    [type |-> type, status |-> st, signal |-> signal, reason |-> reason]
Report(m) == sent' = sent \cup {m}

\* CreatePayment's own event says nothing of privacy; the indexer reports the
\* payer's transaction.
PrivacyInit ==
    /\ gw \in [uuid : BOOLEAN, intent : BOOLEAN, settled : {FALSE}, done : {FALSE},
               retries : {0}, trying : {FALSE}, held : {FALSE}]
    /\ sent = {Message("PAYMENT_CREATED", "pending",
                       IF gw.intent THEN "created" ELSE "unmarked", {})}
    /\ status = "pending" /\ failure = {} /\ events = {} /\ built = {}
    /\ shown = "none"

GatewaySettles ==
    /\ ~gw.settled
    /\ gw' = [gw EXCEPT !.settled = TRUE, !.held = gw.intent, !.trying = gw.intent]
    /\ Report(Message("PAYMENT_EXECUTED", "processing",
                      IF gw.intent THEN "requested" ELSE "unmarked", {}))
    /\ UNCHANGED server
GatewayForwards ==
    /\ gw.trying
    /\ gw' = [gw EXCEPT !.done = TRUE, !.trying = FALSE, !.held = FALSE]
    /\ Report(Message("PAYMENT_COMPLETED", "completed", "completed", {}))
    /\ UNCHANGED server
GatewayFailsToForward ==
    /\ gw.trying /\ gw.retries < MaxFailures
    /\ gw' = [gw EXCEPT !.retries = @ + 1, !.trying = FALSE]
    /\ \E f \in Failures : Report(Message("PAYMENT_FAILED", f.status, f.signal, f.reason))
    /\ UNCHANGED server

\* A transaction the server handed out is mined.
HandedOut(action) == [action |-> action, id |-> "own"] \in built

GatewayRetries ==
    /\ HandedOut("retry") /\ gw.held /\ ~gw.trying /\ gw.retries > 0
    /\ gw' = [gw EXCEPT !.trying = TRUE]
    /\ Report(Message("PAYMENT_EXECUTED", "processing", "retry", {}))
    /\ UNCHANGED server
GatewayReleases(action) ==
    /\ HandedOut(action) /\ gw.held /\ ~gw.trying
    /\ gw' = [gw EXCEPT !.held = FALSE]
    /\ Report(IF action = "claim" THEN Message("PAYMENT_COMPLETED", "completed", "claimed", {})
              ELSE Message("PAYMENT_REFUNDED", "refunded", "refunded", {}))
    /\ UNCHANGED server

--------------------------------------------------------------------------------
(* The server. *)

\* ProcessIndexerWebhook: status and event in one transaction; a failure also
\* sets the reason and turns "pending" into "failed".
ProcessIndexerWebhook(m) ==
    /\ status' = IF m.type = "PAYMENT_FAILED" /\ m.status = "pending" THEN "failed" ELSE m.status
    /\ failure' = IF m.type = "PAYMENT_FAILED" THEN m.reason ELSE failure
    /\ events' = events \cup {m.signal}
                   \cup IF m.type = "PAYMENT_EXECUTED" THEN {"executed"} ELSE {}
    /\ UNCHANGED <<gw, sent, built, shown>>

GetPaymentPrivacyStatus(readable) ==
    LET g == FetchGatewayPrivacyState(gw)
    IN  /\ shown' = IF readable /\ GatewayKnows(g, Derived)
                       THEN DeriveGatewayPrivacyLifecycle(status, failure, g, Derived)
                       ELSE Derived.stage
        /\ UNCHANGED <<gw, sent, status, failure, events, built>>

\* buildPrivacyRecoveryTx looks at the stored events only, never at the gateway.
Offered(action) == Derived.privacy /\ ValidatePrivacyRecoveryStage(Derived.stage, action)

BuildPrivacyRecoveryTx(action, named) ==
    /\ Offered(action)
    /\ \E id \in ResolveOnchainPaymentID(named, events) :
         built' = built \cup {[action |-> action, id |-> id]}
    /\ UNCHANGED <<gw, sent, status, failure, events, shown>>

PrivacyNext ==
    \/ GatewaySettles \/ GatewayForwards \/ GatewayFailsToForward \/ GatewayRetries
    \/ \E a \in {"claim", "refund"} : GatewayReleases(a)
    \/ \E m \in sent : ProcessIndexerWebhook(m)
    \/ \E b \in BOOLEAN : GetPaymentPrivacyStatus(b)
    \/ \E a \in Actions, b \in BOOLEAN : BuildPrivacyRecoveryTx(a, b)

PrivacySpec == PrivacyInit /\ [][PrivacyNext]_privacyVars

--------------------------------------------------------------------------------
(* Properties. *)

Stages == Failing \cup {"PendingOnSource", "SettledToStealth", "ForwardedFinal", "Resolved",
                         "NotPrivacy", "Unknown"}

(* Type invariant. *)
PrivacyTypeOK ==
    /\ gw \in [uuid : BOOLEAN, intent : BOOLEAN, settled : BOOLEAN, done : BOOLEAN,
               retries : 0..MaxFailures, trying : BOOLEAN, held : BOOLEAN]
    /\ status \in {"pending", "processing", "completed", "failed", "refunded"}
    /\ failure \subseteq {"failed", "PRIVACY", "REFUND", "RETRY"}
    /\ events \subseteq {"created", "requested", "executed", "completed", "failed", "privacy",
                         "retry", "claimed", "refunded", "unmarked"}
    /\ built \subseteq [action : Actions, id : {"own", "other"}]
    /\ shown \in Stages \cup {"none"}

(* Once a claim or a refund has been reported, no further recovery            *)
(* transaction is handed out, whatever late or repeated webhook follows.      *)
NoOfferAfterResolved ==
    [][events \cap {"claimed", "refunded"} # {} => built' = built]_privacyVars

(* A retry or a refund is handed out only for a payment whose forward really  *)
(* failed on the gateway.                                                     *)
RecoveryIsBacked ==
    (\E b \in built : b.action \in {"retry", "refund"}) => gw.retries > 0

(* privacy-status never runs ahead of the gateway, whether it answers from the *)
(* getters, from getters that know nothing under the payment's UUID, or from   *)
(* the stored events: it says "final" only of a payment that was forwarded, a  *)
(* failure stage only of one whose forward failed, "resolved" only once the    *)
(* escrow is empty.                                                            *)
StatusIsBacked ==
    /\ shown = "ForwardedFinal" => gw.done
    /\ shown \in Failing => gw.retries > 0
    /\ shown = "Resolved" => gw.settled /\ ~gw.held

(* While the escrow holds the funds, the server has a way to them: a retry once *)
(* it stored PRIVACY_FORWARD_FAILED or a retry, and a claim or a refund once it *)
(* stored any of these or that the forward was requested, however a failure is  *)
(* worded and whatever order and repetition the webhooks come in.               *)
FundsNeverStranded ==
    LET marked == "failed" \in failure \cup events \/ "retry" \in events
    IN  gw.held => /\ marked => Offered("retry")
                   /\ marked \/ "requested" \in events => Offered("claim") \/ Offered("refund")
================================================================================
