---------------------------- MODULE MCIdempotency ----------------------------
(***************************************************************************)
(* Two requests with one key on a route that has the middleware once, two  *)
(* with another key on a route that has it twice.                          *)
(***************************************************************************)
EXTENDS Idempotency, TLC

CONSTANTS once, twice, r1, r2, r3, r4

MCKeyOf == r1 :> once @@ r2 :> once @@ r3 :> twice @@ r4 :> twice
MCLayers == once :> 1 @@ twice :> 2

=============================================================================
