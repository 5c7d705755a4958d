-------------------------- MODULE MCPrivacyRecovery --------------------------
(***************************************************************************)
(* One payment, privacy or not, known to the gateway under its UUID or     *)
(* not, whose forward fails up to MaxFailures times.  The reports of a     *)
(* failure: PRIVACY_FORWARD_FAILED in reason and event, in the decoded     *)
(* revert data only, a reason that just says "privacy", and one that says  *)
(* nothing the code looks for.                                             *)
(***************************************************************************)
EXTENDS PrivacyRecovery

Failure(st, signal, reason) == [status |-> st, signal |-> signal, reason |-> reason]

MCFailures ==
    { Failure("pending", "failed", {"failed", "REFUND"}),
      Failure("processing", "unmarked", {"failed", "RETRY"}),
      Failure("pending", "privacy", {"PRIVACY"}),
      Failure("processing", "unmarked", {}) }
==============================================================================
