---------------------------- MODULE MCPaymentPlan ----------------------------
(***************************************************************************)
(* Two payments on an EVM-EVM route, one administrator, two edits of the   *)
(* tables or of the chain at any point. Amounts hit the percentage, the    *)
(* cap, and a minimum above the amount; the private payment's amount is    *)
(* above the precision, the fee of the swap above the largest int64.       *)
(***************************************************************************)
EXTENDS PaymentPlan, TLC

CONSTANTS r1, r2, a1

In(cross, native, swap, amount, option, mode) ==
    [cross |-> cross, native |-> native, swap |-> swap, amount |-> amount,
     option |-> option, mode |-> mode, slippage |-> IF swap THEN 100 ELSE 0]

MCInputs ==
    { In(TRUE, TRUE, FALSE, 490, NoBridge, "regular"),
      In(TRUE, FALSE, TRUE, 1000, 2, "regular"),
      In(FALSE, FALSE, FALSE, 20000, NoBridge, "privacy"),
      In(FALSE, TRUE, FALSE, 5, NoBridge, "malformed") }

MCPolicyInputs ==
    { [default |-> 2, mode |-> "auto_fallback", order |-> <<2, 1>>],
      [default |-> 0, mode |-> "strict", order |-> <<1, 2>>],
      [default |-> 3, mode |-> "strict", order |-> <<3, 3>>] }

MCBridgeNames == {"Stargate"}

MCFeeRows == { [cap |-> 40, bps |-> 50, min |-> 6, max |-> 4] }

Known(yes) == [b \in BridgeTypes |-> IF b \in yes THEN "yes" ELSE "no"]
Old == [b \in BridgeTypes |-> "unreadable"]

Base == [gateway |-> TRUE, rpc |-> TRUE, router |-> TRUE, default |-> NoBridge,
         configured |-> Old, adapter |-> Known({1, 2}),
         quote |-> [b \in BridgeTypes |-> 7 * b],
         preview |-> NoPreview,
         cost |-> NoCost,
         total |-> None, params |-> [bps |-> None, cap |-> 0],
         vault |-> "row", escrow |-> TRUE, swap |-> 2]

MCChains ==
    { Base,
      [Base EXCEPT !.default = 1, !.vault = "call", !.preview = [amount |-> 30, native |-> 9]],
      [Base EXCEPT !.adapter = Known({1}), !.configured = Known({1}),
                   !.cost = [ok |-> TRUE, native |-> 11, total |-> 5], !.swap = None],
      [Base EXCEPT !.rpc = FALSE, !.vault = "call", !.total = 3],
      [Base EXCEPT !.quote = [b \in BridgeTypes |-> 0], !.escrow = FALSE,
                   !.params = [bps |-> 30, cap |-> 50]],
      [Base EXCEPT !.gateway = FALSE, !.default = 2, !.router = FALSE] }

ASSUME \A c \in MCChains : \A b \in BridgeTypes : c.adapter[b] # "" /\ c.configured[b] # ""

Symmetry == Permutations({r1, r2})
==============================================================================
