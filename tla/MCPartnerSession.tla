-------------------------- MODULE MCPartnerSession --------------------------
(***************************************************************************)
(* Two calls of CreateSession race for a quote; a request without session  *)
(* stands beside them.                                                     *)
(***************************************************************************)
EXTENDS PartnerSession, TLC

CONSTANTS q1, c1, c2

MCQuoteOf == c1 :> q1 @@ c2 :> q1

=============================================================================
