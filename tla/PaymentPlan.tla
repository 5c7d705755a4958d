------------------------------ MODULE PaymentPlan ------------------------------
(***************************************************************************)
(* What POST /payments decides before it answers: the bridge, the fees,   *)
(* the native value and the approval of the transactions the payer signs  *)
(* (internal/usecases/payment_usecase.go), while administrators edit the  *)
(* tables those decisions are read from (route policies, bridge configs,  *)
(* fee configs) and the chain changes under it.                           *)
(*                                                                         *)
(* One route is modelled.  Every database statement and every group of    *)
(* RPC reads that the code makes at one point is one step, so any edit    *)
(* can fall between two of them.  Amounts are in the smallest unit of the *)
(* token.  Fees are computed in float64 tokens: here in 1/10000 units, and *)
(* every number that comes out of float64 is any of the integers its      *)
(* rounding errors allow.                                                  *)
(***************************************************************************)
EXTENDS Integers, Sequences, FiniteSets

CONSTANTS
    Requests,      \* concurrent calls of CreatePayment
    Admins,        \* concurrent calls of UpdateRoutePolicy
    SourceKind,    \* CAIP-2 namespace of the route's source chain
    DestKind,      \* and of its destination chain
    Inputs,        \* request bodies
    PolicyInputs,  \* bodies of the route policy handlers
    BridgeNames,   \* names an active bridge config can carry
    FeeRows,       \* fee_configs rows
    Chains,        \* what the source chain answers to the reads
    Precision,     \* a float64 computation is exact to one part in Precision
    MaxInt64,      \* largest int64
    MaxRows,       \* rows kept in bridge_configs and in fee_configs
    MaxChanges     \* bound: edits by administrators and by the chain

BridgeTypes == 0..3
Hyperbridge == 0
NoBridge == -1
NoPolicy == [id |-> 0]
None == -1
Bps == 10000

ASSUME PlanBounds ==
    /\ MaxRows \in Nat /\ MaxChanges \in Nat
    /\ Precision \in Nat \ {0} /\ MaxInt64 \in Nat
    /\ \A i \in Inputs : i.amount \in Nat /\ i.option \in BridgeTypes \cup {NoBridge}

\* What a contract returns is unsigned, where it returns at all.
ASSUME ChainsAssumption ==
    \A c \in Chains : /\ \A b \in BridgeTypes : c.quote[b] \in Nat
                      /\ c.default \in BridgeTypes \cup {NoBridge}
                      /\ c.params.bps \in Nat \cup {None} /\ c.params.cap \in Nat

ASSUME PolicyInputsAssumption ==
    PolicyInputs \subseteq [default : Nat, mode : STRING, order : Seq(Nat)]

\* The handlers store any number as a percentage, a cap or a bound.
ASSUME FeeRowsAssumption ==
    \A f \in FeeRows : f.cap \in Int /\ f.bps \in Int /\ f.min \in Int /\ f.max \in Int

VARIABLES
    policy,     \* the route's row of route_policies, or NoPolicy
    configs,    \* bridge names of the route's active bridge_configs, newest first
    fees,       \* fee_configs rows of the chain and token, newest first
    chain,      \* what RPC reads return now
    req,        \* the calls in progress
    edit,       \* the row UpdateRoutePolicy read, per administrator
    nextId,     \* next policy id (a UUID in the code)
    decided,    \* history: what administrators last decided for the route
    deleted,    \* history: ids of deleted policies
    changes     \* bound on edits

tables == <<policy, configs, fees, nextId, decided, deleted, edit>>
vars == <<policy, configs, fees, chain, req, edit, nextId, decided, deleted, changes>>

Smaller(a, b) == IF a <= b THEN a ELSE b
Larger(a, b) == IF a >= b THEN a ELSE b

Remove(t, k) == SubSeq(t, 1, k - 1) \o SubSeq(t, k + 1, Len(t))

--------------------------------------------------------------------------------
(* Choosing the bridge. *)

BridgeTypeToName(t) ==
    CASE t = 1 -> "CCIP" [] t = 2 -> "Stargate" [] t = 3 -> "HyperbridgeTokenGateway"
      [] OTHER -> "Hyperbridge"

\* A name the switch does not know ("Hyperlane" among them) is type 0.
BridgeNameToType(n) ==
    CASE n = "CCIP" -> 1 [] n = "Stargate" -> 2 [] n = "HyperbridgeTokenGateway" -> 3
      [] OTHER -> Hyperbridge

SelectBridge ==
    CASE SourceKind = "eip155" /\ DestKind = "eip155" -> "CCIP"
      [] {SourceKind, DestKind} = {"eip155", "solana"} -> "Hyperlane"
      [] OTHER -> "Hyperbridge"

DecideBridge ==
    IF policy # NoPolicy THEN BridgeTypeToName(policy.default)
    ELSE IF configs # <<>> THEN Head(configs)
    ELSE SelectBridge

\* A bridge is added once. A row's own order repeats none (ValidPolicy), so it
\* is only the default that may be there already.
BuildBridgeOrderFromPolicy(p) ==
    LET again == {k \in DOMAIN p.order : p.order[k] = p.default}
        rest == IF again = {} THEN p.order ELSE Remove(p.order, CHOOSE k \in again : TRUE)
    IN  <<p.default>> \o IF p.mode = "auto_fallback" THEN rest ELSE <<>>

\* The policy bootstrapDefaultRoutePolicy inserts; it looks at no bridge config.
BootstrapPolicy(id) ==
    LET b == BridgeNameToType(SelectBridge)
    IN  [id |-> id, default |-> b, mode |-> "strict", order |-> <<b>>]

--------------------------------------------------------------------------------
(* Fees.  A quantity named in "parts" is in 1/10000 of the smallest unit. *)

DefaultFees == [cap |-> 50, bps |-> 30, min |-> 0, max |-> None]
BridgeFeeFlat == 10

Magnitude(parts) == IF parts >= 0 THEN parts ELSE -parts

\* What a computation of a handful of float64 operations is off by, at most: the
\* decimals of a token are not binary fractions, so even a small number is
\* blurred, and a number above the mantissa loses whole units.
Blur(parts) == Magnitude(parts) \div Precision + 1

\* formatAmount: math.Round of the float64 the computation arrived at.
FormatAmount(parts, blur) ==
    LET reach == Bps \div 2 + blur
    IN  -((reach - parts) \div Bps) .. (parts + reach) \div Bps

\* int64(fee): truncation; out of range Go leaves the result to the processor
\* (amd64 answers the smallest, arm64 the largest int64).
Int64(parts, blur) ==
    LET whole == (parts - blur) \div Bps .. (parts + blur) \div Bps
    IN  {n \in whole : n <= MaxInt64}
          \cup IF \E n \in whole : n > MaxInt64 THEN {MaxInt64, -MaxInt64 - 1} ELSE {}

\* percentage, capped by the fixed fee, then the configured minimum, then the
\* configured maximum: a maximum below the minimum wins.
PlatformFeeParts(f, amount) ==
    LET capped == Smaller(amount * f.bps, f.cap * Bps)
        raised == Larger(capped, f.min * Bps)
    IN  IF f.max >= 0 THEN Smaller(raised, f.max * Bps) ELSE raised

\* getSwapQuote: what the swapper answers, for tokens that differ; it quotes no
\* amount below 0.
SwapQuote(c, amountIn) ==
    IF c.rpc /\ c.swap # None /\ amountIn >= 0 THEN amountIn * c.swap ELSE None

\* The breakdowns float64 can give for a total of so many parts.
FeeBreakdowns(i, platform, bridge, total, c) ==
    LET blur == Blur(platform) + Blur(bridge)
        quoted == IF i.swap THEN {SwapQuote(c, i.amount - n) : n \in Int64(platform, Blur(platform))}
                  ELSE {None}
        rest == FormatAmount(i.amount * Bps - total, Blur(i.amount * Bps) + blur)
    IN  [platform : FormatAmount(platform, Blur(platform)),
         bridge : FormatAmount(bridge, Blur(bridge)),
         total : FormatAmount(total, blur),
         net : (quoted \ {None}) \cup IF None \in quoted THEN rest ELSE {}]

\* Faulty variant: the total is taken before the maximum is applied.
CalculateFeesBeforeMaximum(f, i, bridgeFee, c) ==
    LET platform == PlatformFeeParts(f, i.amount)
        unbounded == PlatformFeeParts([f EXCEPT !.max = None], i.amount)
    IN  FeeBreakdowns(i, platform, bridgeFee * Bps, unbounded + bridgeFee * Bps, c)

CalculateFees(f, i, bridgeFee, c) ==
    LET platform == PlatformFeeParts(f, i.amount)
    IN  FeeBreakdowns(i, platform, bridgeFee * Bps, platform + bridgeFee * Bps, c)

\* The row CreatePayment saves.
PaymentRow(f, i, b) ==
    [amount |-> i.amount, fee |-> f.total, dest |-> f.net, bridge |-> b,
     minDest |-> IF i.slippage > 0 THEN (f.net * (Bps - i.slippage)) \div Bps ELSE None,
     charged |-> i.amount + f.total]

--------------------------------------------------------------------------------
(* Reading the chain. *)

\* quoteBridgeFeeByType: 0 stands for an error and for a fee that is not
\* positive, which getBridgeFeeQuote rejects alike.  A failed isRouteConfigured
\* or hasAdapter read is tolerated, a "no" is not.
QuoteBridgeFeeByType(c, b) ==
    IF c.rpc /\ c.configured[b] # "no" /\ c.adapter[b] # "no" THEN c.quote[b] ELSE 0

SafetyBps == 12000
WithMargin(fee) == Larger(fee, (fee * SafetyBps) \div Bps)

\* The gateway's own reads: nothing without an RPC endpoint or with a body that
\* cannot be packed.  An unset preview amount decodes as 0.
NoPreview == [amount |-> None, native |-> None]
NoCost == [ok |-> FALSE, native |-> None, total |-> None]
PreviewGatewayApproval(c, i) == IF c.rpc /\ i.mode # "malformed" THEN c.preview ELSE NoPreview
QuoteGatewayPaymentCost(c) == IF c.rpc THEN c.cost ELSE NoCost
ReadGatewayDefaultBridgeType(c) == IF c.gateway THEN c.default ELSE NoBridge

\* The vault row of the database, else the gateway's vault().
VaultResolved(c) == c.vault = "row" \/ (c.rpc /\ c.vault = "call")

\* The calldata builder gives up (empty string) on a number, a bridge option or
\* a privacy field it cannot parse.
BuildEvmPaymentHex(i) ==
    IF i.mode = "malformed" THEN "none"
    ELSE IF i.mode = "privacy" THEN "createPaymentPrivate"
    ELSE IF i.option = NoBridge THEN "createPaymentDefaultBridge"
    ELSE "createPayment"

\* Faulty variant: the gateway's quote is taken as it is.
ApprovalAsQuoted(c, row) ==
    IF QuoteGatewayPaymentCost(c).total # None THEN c.cost.total
    ELSE IF c.rpc THEN c.total ELSE None

\* quotePaymentCost, else quoteTotalAmount, else the gateway's fee constants
\* with a buffer; never below what the payment row charges.  None is an error.
CalculateOnchainApprovalAmount(c, row) ==
    LET cost == QuoteGatewayPaymentCost(c).total
        share == Smaller((row.amount * c.params.bps) \div Bps, c.params.cap)
        total == Larger(row.amount + share, row.charged)
    IN  IF cost # None THEN Larger(cost, row.charged)
        ELSE IF c.rpc /\ c.total # None THEN Larger(c.total, row.charged)
        ELSE IF c.rpc /\ c.params.bps # None THEN total + Larger(total \div 100, 1000)
        ELSE None

\* What the approval transaction grants: the preview's amount, else the amount
\* above, else (no quote at all) the total charged.
ApprovalAmount(c, previewed, row) ==
    LET quoted == CalculateOnchainApprovalAmount(c, row)
    IN  IF previewed > 0 THEN previewed
        ELSE IF quoted # None THEN quoted
        ELSE IF row.charged # 0 THEN row.charged ELSE row.amount

\* deployEscrow is put first, for a privacy payment on one chain.
NeedsEscrow(i) == ~i.cross /\ i.mode = "privacy"

--------------------------------------------------------------------------------
(* CreatePayment, one request. *)

Idle == [pc |-> "idle"]
NoFees == [platform |-> None]

Init ==
    /\ policy = NoPolicy /\ configs = <<>> /\ fees = <<>>
    /\ chain \in Chains
    /\ req = [r \in Requests |-> Idle]
    /\ edit = [a \in Admins |-> NoPolicy]
    /\ nextId = 1 /\ decided = NoPolicy /\ deleted = {} /\ changes = 0

At(r, pc) == req[r].pc = pc
Put(r, rec) == req' = [req EXCEPT ![r] = rec]
Move(r, pc) == Put(r, [req[r] EXCEPT !.pc = pc])

\* Validation, then the bridge from the tables and the gateway contract; both
\* are kept to the end of the request.
Start(r, i) ==
    /\ At(r, "idle")
    /\ Put(r, [pc |-> "fees", in |-> i, contract |-> chain.gateway,
               bridge |-> IF i.cross THEN DecideBridge ELSE "",
               fees |-> DefaultFees, order |-> <<>>, gw |-> NoBridge, snap |-> NoPolicy,
               fee |-> 0, by |-> NoBridge, back |-> "save", quoted |-> 0, charge |-> NoFees,
               row |-> [amount |-> None],
               previewed |-> 0, value |-> 0, source |-> "none", approval |-> 0,
               txs |-> <<>>])
    /\ UNCHANGED <<tables, chain, changes>>

\* The fee row is read; only a native source token needs a bridge quote here.
ReadFeeConfig(r) ==
    /\ At(r, "fees")
    /\ Put(r, [req[r] EXCEPT
                !.fees = IF fees # <<>> THEN Head(fees) ELSE DefaultFees,
                !.pc = IF req[r].in.cross /\ req[r].in.native THEN "order" ELSE "save"])
    /\ UNCHANGED <<tables, chain, changes>>

\* getBridgeFeeQuote: no router, no quote; then the route policy.
ResolveBridgeOrder(r) ==
    /\ At(r, "order")
    /\ Put(r, [req[r] EXCEPT
                !.fee = 0, !.by = NoBridge, !.gw = NoBridge, !.snap = policy,
                !.order = IF policy = NoPolicy THEN <<>> ELSE BuildBridgeOrderFromPolicy(policy),
                !.pc = IF ~(chain.router /\ chain.rpc) THEN req[r].back
                       ELSE IF policy = NoPolicy THEN "bootstrap" ELSE "gateway"])
    /\ UNCHANGED <<tables, chain, changes>>

\* Faulty variant: the bootstrap writes over the policy it finds.
BootstrapUpserts(r) ==
    /\ At(r, "bootstrap")
    /\ policy' = BootstrapPolicy(nextId) /\ nextId' = nextId + 1
    /\ Move(r, "decide")
    /\ UNCHANGED <<configs, fees, chain, edit, decided, deleted, changes>>

\* The insert fails silently when the route already has a policy (unique index).
BootstrapDefaultRoutePolicy(r) ==
    /\ At(r, "bootstrap")
    /\ IF policy = NoPolicy
         THEN policy' = BootstrapPolicy(nextId) /\ nextId' = nextId + 1
         ELSE UNCHANGED <<policy, nextId>>
    /\ Move(r, "decide")
    /\ UNCHANGED <<configs, fees, chain, edit, decided, deleted, changes>>

\* After the bootstrap the order is one bridge, whatever a policy's fallbacks are.
OrderFromDecision(r) ==
    /\ At(r, "decide")
    /\ Put(r, [req[r] EXCEPT !.order = <<BridgeNameToType(DecideBridge)>>,
                             !.snap = policy, !.pc = "gateway"])
    /\ UNCHANGED <<tables, chain, changes>>

\* The gateway's own default bridge, when it can be read, replaces the order.
ReadGateway(r) ==
    /\ At(r, "gateway")
    /\ Put(r, [req[r] EXCEPT
                !.gw = ReadGatewayDefaultBridgeType(chain), !.pc = "try",
                !.order = IF ReadGatewayDefaultBridgeType(chain) # NoBridge
                            THEN <<chain.default>> ELSE @])
    /\ UNCHANGED <<tables, chain, changes>>

\* One bridge of the order: the first positive fee ends the loop.
TryBridge(r) ==
    LET q == req[r]
        fee == QuoteBridgeFeeByType(chain, Head(q.order))
    IN  /\ At(r, "try")
        /\ Put(r, IF fee > 0
                    THEN [q EXCEPT !.fee = fee, !.by = Head(q.order), !.pc = q.back]
                    ELSE [q EXCEPT !.order = Tail(@),
                                   !.pc = IF Len(q.order) = 1 THEN q.back ELSE "try"])
        /\ UNCHANGED <<tables, chain, changes>>

\* Fees are final and the payment row is committed.
SavePayment(r) ==
    LET q == req[r]
        bridgeFee == IF ~(q.in.cross /\ q.in.native) THEN 0
                     ELSE IF q.fee > 0 THEN q.fee ELSE BridgeFeeFlat
    IN  /\ At(r, "save")
        /\ \E f \in CalculateFees(q.fees, q.in, bridgeFee, chain) :
             Put(r, [q EXCEPT !.quoted = bridgeFee, !.charge = f,
                              !.row = PaymentRow(f, q.in, q.bridge), !.pc = "build"])
        /\ UNCHANGED <<tables, chain, changes>>

SaveFails(r) ==
    /\ At(r, "save") /\ Move(r, "failed")
    /\ UNCHANGED <<tables, chain, changes>>

\* buildTransactionDataWithInput up to the native value.  Without a gateway
\* contract, or off EVM, the answer carries no EVM transactions.
PreviewApproval(r) ==
    LET q == req[r]
        preview == PreviewGatewayApproval(chain, q.in)
    IN  /\ At(r, "build")
        /\ Put(r, IF ~q.contract \/ SourceKind # "eip155" THEN [q EXCEPT !.pc = "done"]
                  ELSE IF BuildEvmPaymentHex(q.in) = "none" THEN [q EXCEPT !.pc = "failed"]
                  ELSE [q EXCEPT
                    !.previewed = Larger(preview.amount, 0),
                    !.value = IF q.in.cross THEN Larger(preview.native, 0) ELSE 0,
                    !.source = IF preview.native # None THEN "preview" ELSE "none",
                    !.back = "margin",
                    !.pc = IF q.in.cross /\ preview.native = None
                             THEN "order" ELSE "approve"])
        /\ UNCHANGED <<tables, chain, changes>>

\* The router's quote with its margin; else the gateway's quotePaymentCost.
BridgeValue(r) ==
    LET q == req[r]
        cost == QuoteGatewayPaymentCost(chain)
        fee == IF q.fee > 0 THEN q.fee ELSE IF cost.ok THEN cost.native ELSE None
    IN  /\ At(r, "margin")
        /\ Put(r, IF fee = None THEN [q EXCEPT !.pc = "failed"]
                  ELSE [q EXCEPT !.value = WithMargin(fee), !.pc = "approve",
                                 !.source = IF q.fee > 0 THEN "router" ELSE "cost"])
        /\ UNCHANGED <<tables, chain, changes>>

\* The transactions in signing order: deployEscrow, approve, createPayment.
BuildTransactions(r) ==
    LET q == req[r]
        escrow == IF NeedsEscrow(q.in) THEN <<"deployEscrow">> ELSE <<>>
        approve == IF q.in.native THEN <<>> ELSE <<"approve">>
    IN  /\ At(r, "approve")
        /\ Put(r, IF \/ NeedsEscrow(q.in) /\ ~chain.escrow
                     \/ ~q.in.native /\ ~VaultResolved(chain)
                    THEN [q EXCEPT !.pc = "failed"]
                    ELSE [q EXCEPT
                      !.txs = escrow \o approve \o <<BuildEvmPaymentHex(q.in)>>,
                      !.approval = IF q.in.native THEN 0
                                   ELSE ApprovalAmount(chain, q.previewed, q.row),
                      !.pc = "done"])
        /\ UNCHANGED <<tables, chain, changes>>

CreatePayment(r) ==
    \/ \E i \in Inputs : Start(r, i)
    \/ ReadFeeConfig(r) \/ ResolveBridgeOrder(r) \/ BootstrapDefaultRoutePolicy(r)
    \/ OrderFromDecision(r) \/ ReadGateway(r) \/ TryBridge(r) \/ SavePayment(r)
    \/ SaveFails(r) \/ PreviewApproval(r) \/ BridgeValue(r) \/ BuildTransactions(r)

--------------------------------------------------------------------------------
(* The administrators' handlers and the chain. *)

Edit == changes < MaxChanges /\ changes' = changes + 1

\* The order defaults to the default bridge; invalid and repeated types are
\* refused.
WithOrder(p) == [p EXCEPT !.order = IF @ = <<>> THEN <<p.default>> ELSE @]
ValidPolicy(p) ==
    /\ p.default \in BridgeTypes /\ p.mode \in {"strict", "auto_fallback"}
    /\ \A k \in DOMAIN p.order : p.order[k] \in BridgeTypes
    /\ Cardinality({p.order[k] : k \in DOMAIN p.order}) = Len(p.order)
PolicyRow(p, id) ==
    [id |-> id, default |-> p.default, mode |-> p.mode, order |-> WithOrder(p).order]

CreateRoutePolicy(p) ==
    /\ Edit /\ ValidPolicy(p)
    /\ policy = NoPolicy
    /\ policy' = PolicyRow(p, nextId) /\ decided' = policy'
    /\ nextId' = nextId + 1
    /\ UNCHANGED <<configs, fees, chain, req, edit, deleted>>

\* UpdateRoutePolicy reads the row by id ...
ReadRoutePolicy(a) ==
    /\ edit[a] = NoPolicy /\ policy # NoPolicy
    /\ edit' = [edit EXCEPT ![a] = policy]
    /\ UNCHANGED <<policy, configs, fees, chain, req, nextId, decided, deleted, changes>>

\* Faulty variant: the row is saved again whether it is still there or not.
UpdateSaves(a, p) ==
    /\ Edit /\ edit[a] # NoPolicy /\ ValidPolicy(p)
    /\ policy' = PolicyRow(p, edit[a].id) /\ decided' = policy'
    /\ edit' = [edit EXCEPT ![a] = NoPolicy]
    /\ UNCHANGED <<configs, fees, chain, req, nextId, deleted>>

\* ... and writes where id matches: a row deleted in between is not found.
UpdateRoutePolicy(a, p) ==
    /\ Edit /\ edit[a] # NoPolicy
    /\ IF ValidPolicy(p) /\ edit[a].id = policy.id
         THEN policy' = PolicyRow(p, edit[a].id) /\ decided' = policy'
         ELSE UNCHANGED <<policy, decided>>
    /\ edit' = [edit EXCEPT ![a] = NoPolicy]
    /\ UNCHANGED <<configs, fees, chain, req, nextId, deleted>>

DeleteRoutePolicy ==
    /\ Edit /\ policy # NoPolicy
    /\ deleted' = deleted \cup {policy.id}
    /\ policy' = NoPolicy /\ decided' = NoPolicy
    /\ UNCHANGED <<configs, fees, chain, req, edit, nextId>>

\* Bridge and fee configs have no unique index: the row updated last is used,
\* and deleting it uncovers the one before.
CreateBridgeConfig(n) ==
    /\ Edit /\ Len(configs) < MaxRows
    /\ configs' = <<n>> \o configs
    /\ UNCHANGED <<policy, fees, chain, req, edit, nextId, decided, deleted>>
UpdateBridgeConfig(k, n) ==
    /\ Edit
    /\ configs' = <<n>> \o Remove(configs, k)
    /\ UNCHANGED <<policy, fees, chain, req, edit, nextId, decided, deleted>>
DeleteBridgeConfig(k) ==
    /\ Edit
    /\ configs' = Remove(configs, k)
    /\ UNCHANGED <<policy, fees, chain, req, edit, nextId, decided, deleted>>
CreateFeeConfig(f) ==
    /\ Edit /\ Len(fees) < MaxRows
    /\ fees' = <<f>> \o fees
    /\ UNCHANGED <<policy, configs, chain, req, edit, nextId, decided, deleted>>
UpdateFeeConfig(k, f) ==
    /\ Edit
    /\ fees' = <<f>> \o Remove(fees, k)
    /\ UNCHANGED <<policy, configs, chain, req, edit, nextId, decided, deleted>>
DeleteFeeConfig(k) ==
    /\ Edit
    /\ fees' = Remove(fees, k)
    /\ UNCHANGED <<policy, configs, chain, req, edit, nextId, decided, deleted>>

ChainChanges(c) ==
    /\ Edit /\ chain' = c /\ c # chain
    /\ UNCHANGED <<tables, req>>

Administer ==
    \/ \E p \in PolicyInputs : CreateRoutePolicy(p)
    \/ \E a \in Admins : ReadRoutePolicy(a)
    \/ \E a \in Admins, p \in PolicyInputs : UpdateRoutePolicy(a, p)
    \/ DeleteRoutePolicy
    \/ \E n \in BridgeNames : CreateBridgeConfig(n)
    \/ \E k \in DOMAIN configs, n \in BridgeNames : UpdateBridgeConfig(k, n)
    \/ \E k \in DOMAIN configs : DeleteBridgeConfig(k)
    \/ \E f \in FeeRows : CreateFeeConfig(f)
    \/ \E k \in DOMAIN fees, f \in FeeRows : UpdateFeeConfig(k, f)
    \/ \E k \in DOMAIN fees : DeleteFeeConfig(k)

Next ==
    \/ \E r \in Requests : CreatePayment(r)
    \/ Administer
    \/ \E c \in Chains : ChainChanges(c)

Spec == Init /\ [][Next]_vars

--------------------------------------------------------------------------------
(* Properties. *)

Started(r) == req[r].pc # "idle"
Saved(r) == Started(r) /\ req[r].row.amount # None

\* Units that float64 loses in a payment: none while amount and fees stay well
\* below Precision units, where only the roundings of formatAmount count.
Lost(q) ==
    LET parts == Blur(q.in.amount * Bps) + 2 * Blur(PlatformFeeParts(q.fees, q.in.amount))
                   + 2 * Blur(q.quoted * Bps)
    IN  (Bps \div 2 + parts) \div Bps

(* A saved payment charges exactly the amount plus the fee it reports.  The   *)
(* parts of the fee, and fee and destination amount, are each computed and    *)
(* rounded on their own (CalculateFees, formatAmount): they add up to within  *)
(* one unit, and to what the float64 mantissa loses of large amounts, also    *)
(* when cap, minimum and maximum contradict each other.                       *)
FeesAddUp ==
    \A r \in Requests : Saved(r) =>
        LET q == req[r] IN
        /\ q.row.charged = q.row.amount + q.charge.total
        /\ Magnitude(q.charge.platform + q.charge.bridge - q.charge.total) <= 1 + Lost(q)
        /\ ~q.in.swap => Magnitude(q.row.dest + q.row.fee - q.row.amount) <= 1 + Lost(q)

(* A quote never changes what an administrator decided: the bootstrapped row  *)
(* stands only while no administrator has a policy for the route, even when   *)
(* one is created between the quote's read and its insert.                    *)
AdminPolicyWins ==
    policy # decided => decided = NoPolicy /\ policy = BootstrapPolicy(policy.id)

(* An update that raced a delete never brings the deleted policy back.        *)
DeletedStaysDeleted == policy # NoPolicy => policy.id \notin deleted

(* When the gateway gave no preview, the approval the payer signs covers what *)
(* the saved payment charges, on each of the three fallback paths.            *)
ApprovalCoversCharge ==
    \A r \in Requests :
        Started(r) /\ req[r].pc = "done" /\ req[r].approval > 0 /\ req[r].previewed = 0 =>
            req[r].approval >= req[r].row.charged

================================================================================
