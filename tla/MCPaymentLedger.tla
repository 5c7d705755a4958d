--------------------------- MODULE MCPaymentLedger ---------------------------
(***************************************************************************)
(* Two payments for TLC: one of a merchant, which fails and is refunded,   *)
(* and one of nobody, unknown to the backend.                              *)
(***************************************************************************)
EXTENDS PaymentLedger, TLC

CONSTANTS paid, unknown

Rep(t, s, r) == [type |-> t, status |-> s, reason |-> r]

MCPayments == {paid}
MCForeign == {unknown}

\* A report with a status the backend does not know, a failure with a status
\* and a reason, and the way to a refund.
MCReports ==
    paid :> << Rep("PAYMENT_CREATED", "other", FALSE),
               Rep("PAYMENT_EXECUTED", "processing", FALSE),
               Rep("PAYMENT_FAILED", "pending", TRUE),
               Rep("PAYMENT_REFUNDED", "refunded", FALSE) >>
    @@ unknown :> << Rep("PAYMENT_COMPLETED", "completed", FALSE) >>

ASSUME ReportsMoveForward == ChainMovesForward

=============================================================================
