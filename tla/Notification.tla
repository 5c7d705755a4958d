---------------------------- MODULE Notification ----------------------------
(***************************************************************************)
(* What the notification engine promises about the status a merchant or an *)
(* administrator sees in webhook_logs, without workers, copies, batches or *)
(* crashes: "delivered" means that the merchant accepted a request,        *)
(* "failed" that the agreed number of requests was sent, and a status that *)
(* ends the delivery stays, unless an administrator retried the delivery   *)
(* or a write of its row failed.                                           *)
(***************************************************************************)
EXTENDS Naturals

CONSTANTS Deliveries, MaxRetries

VARIABLES
    state,      \* the status of each delivery
    sent,       \* requests sent for it
    accepted,   \* requests the merchant accepted
    disturbed   \* manual retries and failed writes of its row

vars == <<state, sent, accepted, disturbed>>

Ends == {"delivered", "failed", "dropped"}

Init ==
    /\ state = [d \in Deliveries |-> "absent"]
    /\ sent = [d \in Deliveries |-> 0]
    /\ accepted = [d \in Deliveries |-> 0]
    /\ disturbed = [d \in Deliveries |-> 0]

Enqueue(d) ==
    /\ state[d] = "absent"
    /\ state' = [state EXCEPT ![d] = "open"]
    /\ UNCHANGED <<sent, accepted, disturbed>>

\* A request leaves, for a delivery that has not ended, or was disturbed.
Attempt(d, ok) ==
    /\ state[d] = "open" \/ disturbed[d] > 0
    /\ sent' = [sent EXCEPT ![d] = @ + 1]
    /\ accepted' = [accepted EXCEPT ![d] = IF ok THEN @ + 1 ELSE @]
    /\ UNCHANGED <<state, disturbed>>

\* The delivery gets the status s.
Report(d, s) ==
    /\ state[d] = "open" \/ disturbed[d] > 0
    /\ s = "delivered" => accepted[d] > 0
    /\ s = "failed" => sent[d] >= MaxRetries
    /\ state' = [state EXCEPT ![d] = s]
    /\ UNCHANGED <<sent, accepted, disturbed>>

\* A manual retry begins, or a write fails.
Disturb(d) ==
    /\ disturbed' = [disturbed EXCEPT ![d] = @ + 1]
    /\ UNCHANGED <<state, sent, accepted>>

Next ==
    \E d \in Deliveries :
        \/ Enqueue(d)
        \/ \E ok \in BOOLEAN : Attempt(d, ok)
        \/ \E s \in Ends \cup {"open"} : Report(d, s)
        \/ Disturb(d)

Spec == Init /\ [][Next]_vars

=============================================================================
