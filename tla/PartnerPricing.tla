--------------------------- MODULE PartnerPricing ---------------------------
(***************************************************************************)
(* How a merchant's price is made: POST /quotes (CreateQuote) and POST     *)
(* /create-payment (CreatePayment: settlement profile, quote stage, session *)
(* stage), priced by three engines that stand in for each other (the V3    *)
(* quoter hop by hop, the swapper's getRealQuote, the simulator), while    *)
(* the swappers are reconfigured, the profile is replaced, statements fail *)
(* and stages time out.                                                    *)
(*                                                                         *)
(* What a chain answers depends on its state in `onchain`; a call keeps    *)
(* what it has read of a route in its request cache, and a read that fails *)
(* is not kept: the next probe reads again. The search of                  *)
(* solveRequiredInputForTargetOutput is the module InverseQuote: here it   *)
(* is its anchor probe and then its result, the least input that is enough *)
(* when every read is answered.                                            *)
(***************************************************************************)
EXTENDS Integers, Sequences, FiniteSets, SequencesExt

CONSTANTS
    Calls,          \* calls of CreateQuote and CreatePayment by one merchant
    Asks,           \* the requests a call may make
    Chains, Symbols,
    Listed,         \* active rows of tokens, <<chain, symbol>>
    Decimals,       \* the decimals of each token on each chain
    Worth,          \* external: what one atomic unit of each token is worth
    Hub,            \* the token in the middle of a route of two hops
    ChainStates,    \* external: the states a chain's swapper may be in
    Profiles,       \* settlement profiles the merchant may store
    PrimaryWallet,  \* the primary wallet of the merchant's user
    None,           \* no route, no answer, no row
    MaxAmount,      \* bound: the largest amount the search looks at
    MaxChanges,     \* bound: changes of a swapper or of the merchant's rows
    MaxFaults       \* bound: failed statements and reads, stages out of time

ASSUME PricingBoundsAssumption == MaxAmount \in Nat /\ MaxChanges \in Nat /\ MaxFaults \in Nat
ASSUME AsksAssumption == \A a \in Asks : a.chain \in Chains
ASSUME ProfilesAssumption == \A p \in Profiles : p.chain \in Chains /\ p.token \in Symbols
ASSUME ChainStatesAssumption ==
    \A s \in ChainStates : s.route \in {None, "direct", "hub"}
ASSUME NoneAssumption ==
    /\ None \notin {"direct", "hub", "hops"}
    /\ \A s \in ChainStates : [active |-> s.active, fee |-> s.fee] # None

\* An engine that has no answer
NoAnswer == [amount |-> 0, by |-> None]

Unread == [path |-> None, pool |-> None]

\* The pool configuration in the state of a chain's swapper
PoolOf(state) == [active |-> state.active, fee |-> state.fee]

VARIABLES
    ask,            \* the request of each call
    onchain,        \* the swapper of each chain
    profile,        \* table merchant_settlement_profiles
    suspended,      \* merchants.status is not active
    pc,             \* where each call is
    snap,           \* the profile a call has read
    wallet,         \* the destination wallet a call has resolved
    cache,          \* the route and pool of each chain in a call's request cache
    bridge,         \* the amount of the bridge token a call has found
    price,          \* the amount a call has found, and the engine that found it
    quotes,         \* table payment_quotes: what the calls have inserted
    sessions,       \* table partner_payment_sessions: what the calls have inserted
    stored,         \* history: the profiles there have been
    used,           \* history: the engines' answers a call has relied on
    moved,          \* history: the calls that saw a swapper change, or a read of it fail
    changes, faults

vars == <<ask, onchain, profile, suspended, pc, snap, wallet, cache, bridge, price,
          quotes, sessions, stored, used, moved, changes, faults>>

rows == <<ask, profile, suspended, stored>>
reads == <<snap, wallet>>

Labels == {"start", "merchant", "route", "price", "anchor", "search", "save", "session",
           "answered", "failed"}

\* What a call may have read of a chain
CacheEntry == [path : {None, "direct", "hub"}, pool : {PoolOf(s) : s \in ChainStates} \cup {None}]

RowsOK ==
    /\ ask \in [Calls -> Asks]
    /\ onchain \in [Chains -> ChainStates]
    /\ profile \in Profiles /\ stored \subseteq Profiles
    /\ suspended \in BOOLEAN

CallsOK ==
    /\ pc \in [Calls -> Labels]
    /\ snap \in [Calls -> Profiles \cup {None}]
    /\ bridge \in [Calls -> Nat]
    /\ Calls = DOMAIN wallet /\ Calls = DOMAIN price /\ Calls = DOMAIN used

TablesOK ==
    /\ \A q \in quotes : /\ DOMAIN q = {"call", "amount", "by", "status"}
                         /\ q.call \in Calls /\ q.status \in {"active", "used"}
    /\ \A s \in sessions : s.call \in Calls

CountsOK == moved \subseteq Calls /\ changes \in 0..MaxChanges /\ faults \in 0..MaxFaults

TypeOK ==
    /\ RowsOK
    /\ CallsOK
    /\ TablesOK
    /\ CountsOK
    /\ cache \in [Calls -> [Chains -> CacheEntry]]

Init ==
    /\ ask \in [Calls -> Asks]
    /\ onchain \in [Chains -> ChainStates]
    /\ profile \in Profiles
    /\ suspended = FALSE
    /\ pc = [c \in Calls |-> "start"]
    /\ snap = [c \in Calls |-> None]
    /\ wallet = [c \in Calls |-> None]
    /\ cache = [c \in Calls |-> [ch \in Chains |-> Unread]]
    /\ bridge = [c \in Calls |-> 0]
    /\ price = [c \in Calls |-> NoAnswer]
    /\ quotes = {}
    /\ sessions = {}
    /\ stored = {profile}
    /\ used = [c \in Calls |-> {}]
    /\ moved = {}
    /\ changes = 0 /\ faults = 0

-----------------------------------------------------------------------------
(* Amounts *)

\* A requested amount is a decimal of `digits` places; too many places are
\* refused, and what is left is padded to the token's atomic units.
ConvertToSmallestUnit(amount, decimals) ==
    IF amount.digits > decimals THEN None ELSE amount.units * 10^(decimals - amount.digits)

ASSUME AmountsAssumption ==
    \A a \in Asks, ch \in Chains, s \in Symbols :
        ConvertToSmallestUnit(a.amount, Decimals[ch][s]) \in Nat \cup {None}

-----------------------------------------------------------------------------
(* What a chain answers in the state its swapper is in (external) *)

CommonUniswapV3FeeTiers == <<100, 500, 3000, 10000>>

\* External: the quoter of a pool, 0 where the call reverts or pays nothing
QuoterV3ExactInputSingle(state, in, out, amount, fee) ==
    LET value == (amount * Worth[in]) \div Worth[out] - (1 + fee \div 1000)
    IN  IF fee \in state.pools /\ value > 0 THEN value ELSE 0

\* External: getRealQuote of the swapper, 1:1 while it has no prices
SwapperAnswer(state, in, out, amount) ==
    CASE state.swapper = "fails" -> None
      [] state.swapper = "placeholder" -> amount
      [] state.swapper = "real" ->
             LET value == (amount * Worth[in]) \div Worth[out] - 2
             IN  IF value > 0 THEN value ELSE 0

\* External: the amount in the answer of the simulator service
SimulatorResponse(state, in, out, amount) ==
    CASE state.simulator = "placeholder" -> amount
      [] state.simulator = "real" -> (amount * Worth[in]) \div Worth[out]
      [] OTHER -> 0

-----------------------------------------------------------------------------
(* The engines. state is the chain's, r what the call knows of its route and *)
(* pool.                                                                    *)

\* Faulty variant: the request cache is not consulted.
RouteUncached(c, ch) == [path |-> onchain[ch].route, pool |-> PoolOf(onchain[ch])]

\* getCachedRoutePath and getCachedV3PoolConfig: what the call read first
Route(c, ch) ==
    LET seen == cache[c][ch]
    IN  [path |-> IF seen.path # None THEN seen.path ELSE onchain[ch].route,
         pool |-> IF seen.pool # None THEN seen.pool ELSE PoolOf(onchain[ch])]

\* What one engine may come to know of a chain: everything; all but the pool
\* configuration; only what the cache holds. None stands for a failed read.
Known(c, ch) == {Route(c, ch), [Route(c, ch) EXCEPT !.pool = cache[c][ch].pool], cache[c][ch]}

\* What the quoter's engine and then the simulator's dry run know of a chain in
\* one probe: the second knows what the first has read, and reads the rest again.
Readings(c, ch) ==
    {rd \in Known(c, ch) \X Known(c, ch) : /\ rd[1].path # None => rd[2].path # None
                                           /\ rd[1].pool # None => rd[2].pool # None}

\* Every read was answered.
Complete(c, ch) == <<Route(c, ch), Route(c, ch)>>

\* What the cache holds once the hops were asked for: a route that does not
\* exist is not kept, nor a read that failed, and the pools are read after the
\* quoter.
Remember(c, ch, r) ==
    [cache EXCEPT ![c][ch] = IF r.path = None THEN @
                             ELSE IF ~onchain[ch].quoter THEN [@ EXCEPT !.path = r.path]
                             ELSE r]

RoutePath(r, in, out) ==
    IF r.path = "hub" /\ Hub \notin {in, out} THEN <<in, Hub, out>> ELSE <<in, out>>

\* The hops of a path; a path is priced hop by hop, and at 0 as soon as one
\* hop has no price.
Hops(path) == [i \in 1..Len(path) - 1 |-> <<path[i], path[i + 1]>>]

\* The configured tier first; then the common ones, except one that equals the
\* configured fee, of an inactive pool too. A pool configuration that could not
\* be read is an inactive one without a fee.
QuoteHopV3WithDryRunFees(state, in, out, amount, pool) ==
    LET Out(fee) == QuoterV3ExactInputSingle(state, in, out, amount, fee)
        configured == IF pool = None THEN [active |-> FALSE, fee |-> 0] ELSE pool
        tiers == SelectSeq(CommonUniswapV3FeeTiers,
                           LAMBDA f : f # configured.fee /\ Out(f) > 0)
    IN  IF configured.active /\ Out(configured.fee) > 0 THEN Out(configured.fee)
        ELSE IF tiers # <<>> THEN Out(tiers[1]) ELSE 0

GetRPCDryRunPartnerQuote(state, in, out, amount, r) ==
    IF r.path = None \/ ~state.quoter THEN 0
    ELSE FoldLeft(LAMBDA x, h : IF x = 0 THEN 0
                                ELSE QuoteHopV3WithDryRunFees(state, h[1], h[2], x, r.pool),
                  amount, Hops(RoutePath(r, in, out)))

\* The dry run, then the service, whose 1:1 answer is refused.
GetSimulatorBackedPartnerQuote(state, in, out, amount, r) ==
    LET dryRun == GetRPCDryRunPartnerQuote(state, in, out, amount, r)
        answer == SimulatorResponse(state, in, out, amount)
    IN  IF in = out THEN [amount |-> amount, by |-> "identity"]
        ELSE IF dryRun > 0 THEN [amount |-> dryRun, by |-> "hops"]
        ELSE IF answer > 0 /\ answer # amount THEN [amount |-> answer, by |-> "simulator"]
        ELSE NoAnswer

\* The quoter alone: only along active pools that could be read, at their own
\* tier.
GetAccuratePartnerQuote(state, in, out, amount, r) ==
    LET along == FoldLeft(LAMBDA x, h : IF x = 0 THEN 0
                              ELSE QuoterV3ExactInputSingle(state, h[1], h[2], x, r.pool.fee),
                          amount, Hops(RoutePath(r, in, out)))
    IN  IF in = out THEN [amount |-> amount, by |-> "identity"]
        ELSE IF r.path # None /\ state.quoter /\ r.pool # None /\ r.pool.active /\ along > 0
        THEN [amount |-> along, by |-> "hops"]
        ELSE NoAnswer

GetSwapQuote(state, in, out, amount) ==
    IF in = out THEN amount ELSE SwapperAnswer(state, in, out, amount)

\* Faulty variant: any positive answer of the swapper is taken.
QuoteWithDryRunTrusting(state, in, out, amount, r) ==
    LET swap == GetSwapQuote(state, in, out, amount)
    IN  IF swap # None /\ swap > 0 THEN [amount |-> swap, by |-> "swapper"]
        ELSE GetSimulatorBackedPartnerQuote(state, in, out, amount, r)

\* CreatePayment's order: the swapper, unless it answers 1:1, then the simulator
QuoteWithDryRunPreferred(state, in, out, amount, r) ==
    LET swap == GetSwapQuote(state, in, out, amount)
    IN  IF swap # None /\ swap > 0 /\ (swap # amount \/ in = out)
        THEN [amount |-> swap, by |-> "swapper"]
        ELSE GetSimulatorBackedPartnerQuote(state, in, out, amount, r)

\* CreateQuote's order: the quoter, else the swapper, else the simulator; what
\* is still 1:1 after the simulator was asked is refused.
QuoteWithFallbacks(state, in, out, amount, rd) ==
    LET accurate == GetAccuratePartnerQuote(state, in, out, amount, rd[1])
        swap == GetSwapQuote(state, in, out, amount)
        sim == GetSimulatorBackedPartnerQuote(state, in, out, amount, rd[2])
        first == IF swap # None THEN [amount |-> swap, by |-> "swapper"] ELSE sim
        second == IF first.amount = amount /\ in # out /\ sim # NoAnswer THEN sim ELSE first
    IN  IF accurate # NoAnswer THEN accurate
        ELSE IF second.amount = 0 \/ (second.amount = amount /\ in # out) THEN NoAnswer
        ELSE second

-----------------------------------------------------------------------------
(* The steps of a call *)

Dry(c) == ask[c].kind = "payment"

Quote(c, ch, in, out, amount, rd) ==
    IF Dry(c) THEN QuoteWithDryRunPreferred(onchain[ch], in, out, amount, rd[2])
    ELSE QuoteWithFallbacks(onchain[ch], in, out, amount, rd)

\* The token of the invoice, and its amount in atomic units
InvoiceToken(c) == IF Dry(c) THEN snap[c].token ELSE ask[c].invoice
InvoiceAtomic(c) == ConvertToSmallestUnit(ask[c].amount, Decimals[snap[c].chain][snap[c].token])

SameChain(c) == Dry(c) => ask[c].chain = snap[c].chain

SameChainLeg(c) ==
    [chain |-> ask[c].chain, in |-> InvoiceToken(c), out |-> ask[c].token,
     amount |-> IF Dry(c) THEN InvoiceAtomic(c) ELSE ask[c].amount.units]

\* Faulty variant: the source leg is solved for the invoice, not the bridge amount.
LegForInvoice(c) ==
    IF SameChain(c) THEN SameChainLeg(c)
    ELSE IF bridge[c] = 0
    THEN [chain |-> snap[c].chain, in |-> snap[c].bridge, out |-> snap[c].token,
          amount |-> InvoiceAtomic(c)]
    ELSE [chain |-> ask[c].chain, in |-> ask[c].token, out |-> snap[c].bridge,
          amount |-> InvoiceAtomic(c)]

\* The leg that is being priced: the destination's until its bridge amount is
\* found, then the source's. On one chain the invoice is quoted forward.
Leg(c) ==
    IF SameChain(c) THEN SameChainLeg(c)
    ELSE IF bridge[c] = 0
    THEN [chain |-> snap[c].chain, in |-> snap[c].bridge, out |-> snap[c].token,
          amount |-> InvoiceAtomic(c)]
    ELSE [chain |-> ask[c].chain, in |-> ask[c].token, out |-> snap[c].bridge,
          amount |-> bridge[c]]

Goto(c, label) == pc' = [pc EXCEPT ![c] = label]

Fault == faults < MaxFaults /\ faults' = faults + 1

\* POST /quotes: amounts are atomic units already; both tokens must be listed.
StartQuote(c) ==
    /\ pc[c] = "start" /\ ~Dry(c)
    /\ Goto(c, IF /\ <<ask[c].chain, ask[c].token>> \in Listed
                  /\ <<ask[c].chain, ask[c].invoice>> \in Listed
                  /\ ask[c].amount.units > 0
               THEN "route" ELSE "failed")
    /\ UNCHANGED <<onchain, rows, reads, cache, bridge, price, quotes, sessions, used,
                   moved, changes, faults>>

\* POST /create-payment: the merchant must be active.
StartPayment(c) ==
    /\ pc[c] = "start" /\ Dry(c)
    /\ Goto(c, IF suspended THEN "failed" ELSE "merchant")
    /\ UNCHANGED <<onchain, rows, reads, cache, bridge, price, quotes, sessions, used,
                   moved, changes, faults>>

\* expires_in: absent, "unlimited", or from 30 seconds to 24 hours
ResolveCreatePaymentExpiresAt(raw) ==
    raw.kind \in {"default", "unlimited"} \/ raw.seconds \in 30..86400

ResolveMerchantWallet(p) == IF p.wallet = "" THEN PrimaryWallet ELSE p.wallet

\* The profile is read once; its tokens, the payer's token, the wallet and the
\* expiry must be good. A fixed amount needs no price.
ReadSettlement(c) ==
    /\ pc[c] = "merchant"
    /\ snap' = [snap EXCEPT ![c] = profile]
    /\ wallet' = [wallet EXCEPT ![c] = ResolveMerchantWallet(profile)]
    /\ LET fixed == ConvertToSmallestUnit(ask[c].amount, Decimals[ask[c].chain][ask[c].token])
           invoice == ConvertToSmallestUnit(ask[c].amount, Decimals[profile.chain][profile.token])
           good == /\ {<<profile.chain, profile.token>>, <<profile.chain, profile.bridge>>,
                        <<ask[c].chain, ask[c].token>>} \subseteq Listed
                   /\ ResolveCreatePaymentExpiresAt(ask[c].expires)
       IN  IF ask[c].pricing = "invoice_currency"
           THEN /\ Goto(c, IF good /\ invoice # None /\ invoice > 0 THEN "route" ELSE "failed")
                /\ UNCHANGED price
           ELSE /\ Goto(c, IF good /\ fixed # None THEN "save" ELSE "failed")
                /\ price' = IF fixed = None THEN price
                            ELSE [price EXCEPT ![c] = [amount |-> fixed, by |-> "fixed"]]
    /\ UNCHANGED <<onchain, rows, cache, bridge, quotes, sessions, used, moved, changes, faults>>

\* CheckRouteSupportDetailed: a route, and a router that can execute it
RouteSupported(l) ==
    l.in = l.out \/ (onchain[l.chain].route # None /\ onchain[l.chain].router)

\* The destination leg is trivial when the invoice is in the bridge token.
BridgeDirect(c) ==
    /\ pc[c] = "route" /\ ~SameChain(c) /\ bridge[c] = 0
    /\ snap[c].token = snap[c].bridge
    /\ bridge' = [bridge EXCEPT ![c] = InvoiceAtomic(c)]
    /\ UNCHANGED <<onchain, rows, pc, reads, cache, price, quotes, sessions, used, moved,
                   changes, faults>>

\* The source leg is trivial when the payer pays in the bridge token.
SourceDirect(c) ==
    /\ pc[c] = "route" /\ ~SameChain(c) /\ bridge[c] > 0
    /\ ask[c].token = snap[c].bridge
    /\ price' = [price EXCEPT ![c] = [amount |-> bridge[c], by |-> "bridge"]]
    /\ Goto(c, "save")
    /\ UNCHANGED <<onchain, rows, reads, cache, bridge, quotes, sessions, used, moved,
                   changes, faults>>

\* The bridge token must be listed on the chain, and the pair have a route.
CheckRoute(c) ==
    LET l == Leg(c) IN
    /\ pc[c] = "route"
    /\ SameChain(c) \/ l.in # l.out
    /\ Goto(c, IF {<<l.chain, l.in>>, <<l.chain, l.out>>} \subseteq Listed /\ RouteSupported(l)
               THEN IF SameChain(c) THEN "price" ELSE "anchor"
               ELSE "failed")
    /\ UNCHANGED <<onchain, rows, reads, cache, bridge, price, quotes, sessions, used, moved,
                   changes, faults>>

\* The reads of the node all succeed, or some fail.
Reads(c, ch, rd) ==
    IF rd = Complete(c, ch) THEN UNCHANGED <<moved, faults>>
    ELSE Fault /\ moved' = moved \cup {c}

\* An answer is relied on, and what was read of the route is kept.
Rely(c, l, given, answer, r) ==
    /\ used' = [used EXCEPT ![c] = @ \cup {[leg |-> l, given |-> given, answer |-> answer,
                                            route |-> r]}]
    /\ cache' = IF answer.by \in {"swapper", "identity"} /\ Dry(c) THEN cache
                ELSE Remember(c, l.chain, r)

\* createQuoteCore on one chain
Price(c) ==
    LET l == Leg(c) IN
    /\ pc[c] = "price"
    /\ \E rd \in Readings(c, l.chain) :
          LET answer == Quote(c, l.chain, l.in, l.out, l.amount, rd)
          IN  /\ Reads(c, l.chain, rd)
              /\ Rely(c, l, l.amount, answer, rd[2])
              /\ price' = [price EXCEPT ![c] = answer]
              /\ Goto(c, IF answer = NoAnswer THEN "failed" ELSE "save")
    /\ UNCHANGED <<onchain, rows, reads, bridge, quotes, sessions, changes>>

\* The input a leg needs is found: the bridge amount, or the price.
Found(c, amount, by) ==
    IF bridge[c] = 0
    THEN /\ bridge' = [bridge EXCEPT ![c] = amount]
         /\ Goto(c, "route")
         /\ UNCHANGED price
    ELSE /\ price' = [price EXCEPT ![c] = [amount |-> amount, by |-> by]]
         /\ Goto(c, "save")
         /\ UNCHANGED bridge

\* solveRequiredInputForTargetOutput: a probe with the target itself
Anchor(c) ==
    LET l == Leg(c) IN
    /\ pc[c] = "anchor"
    /\ \E rd \in Readings(c, l.chain) :
          LET answer == Quote(c, l.chain, l.in, l.out, l.amount, rd)
          IN  /\ Reads(c, l.chain, rd)
              /\ Rely(c, l, l.amount, answer, rd[2])
              /\ IF answer.amount = l.amount THEN Found(c, l.amount, answer.by)
                 ELSE Goto(c, "search") /\ UNCHANGED <<bridge, price>>
    /\ UNCHANGED <<onchain, rows, reads, quotes, sessions, changes>>

\* The inputs whose quote reaches the target
Enough(c, l, rd) ==
    {a \in 1..MaxAmount : Quote(c, l.chain, l.in, l.out, a, rd).amount >= l.amount}

\* What the search may return: the least input that is enough, or, when reads of
\* its probes fail, an input that was enough for one of them.
Solutions(c, l, rd) ==
    LET enough == Enough(c, l, rd)
    IN  {a \in enough : rd = Complete(c, l.chain) => \A b \in enough : a <= b}

\* Faulty variant: every probe is a quote of its own in the table.
SearchPersisting(c) ==
    LET l == Leg(c)
        rd == Complete(c, l.chain)
    IN
    /\ pc[c] = "search"
    /\ \E a \in Solutions(c, l, rd) :
          LET answer == Quote(c, l.chain, l.in, l.out, a, rd)
          IN  /\ Rely(c, l, a, answer, rd[2])
              /\ Found(c, a, answer.by)
              /\ quotes' = quotes \cup {[call |-> c, amount |-> answer.amount,
                                         by |-> answer.by, status |-> "active"]}
    /\ UNCHANGED <<onchain, rows, reads, sessions, moved, changes, faults>>

\* The rest of the search finds an input that is enough, or fails on a probe.
Search(c) ==
    LET l == Leg(c) IN
    /\ pc[c] = "search"
    /\ \/ \E rd \in Readings(c, l.chain) :
             /\ Reads(c, l.chain, rd)
             /\ \E a \in Solutions(c, l, rd) :
                   LET answer == Quote(c, l.chain, l.in, l.out, a, rd)
                   IN  /\ Rely(c, l, a, answer, rd[2])
                       /\ Found(c, a, answer.by)
       \/ /\ Goto(c, "failed")
          /\ UNCHANGED <<cache, used, bridge, price, moved, faults>>
    /\ UNCHANGED <<onchain, rows, reads, quotes, sessions, changes>>

QuoteRow(c) == [call |-> c, amount |-> price[c].amount, by |-> price[c].by, status |-> "active"]

\* The quote is inserted. It may fail, or be committed as its stage runs out
\* of time.
SaveQuote(c) ==
    /\ pc[c] = "save"
    /\ \/ /\ quotes' = quotes \cup {QuoteRow(c)}
          /\ Goto(c, IF Dry(c) THEN "session" ELSE "answered")
          /\ UNCHANGED faults
       \/ /\ Fault
          /\ quotes' \in {quotes, quotes \cup {QuoteRow(c)}}
          /\ Goto(c, "failed")
    /\ UNCHANGED <<onchain, rows, reads, cache, bridge, price, sessions, used, moved, changes>>

MarkUsed(c) == {IF q.call = c THEN [q EXCEPT !.status = "used"] ELSE q : q \in quotes}

SessionRow(c, w) == [call |-> c, chain |-> snap[c].chain, token |-> snap[c].token, wallet |-> w,
                     amount |-> price[c].amount]

\* Faulty variant: the wallet is resolved again for the session.
SessionStageRereads(c) ==
    /\ pc[c] = "session"
    /\ sessions' = sessions \cup {SessionRow(c, ResolveMerchantWallet(profile))}
    /\ quotes' = MarkUsed(c)
    /\ Goto(c, "answered")
    /\ UNCHANGED <<onchain, rows, reads, cache, bridge, price, used, moved, changes, faults>>

\* CreateSession (PartnerSession): session and quote are one transaction. It is
\* committed and answered, or rolled back, or its answer comes too late.
SessionStage(c) ==
    /\ pc[c] = "session"
    /\ \/ /\ sessions' = sessions \cup {SessionRow(c, wallet[c])}
          /\ quotes' = MarkUsed(c)
          /\ \/ Goto(c, "answered") /\ UNCHANGED faults
             \/ Goto(c, "failed") /\ Fault
       \/ /\ Goto(c, "failed")
          /\ UNCHANGED <<sessions, quotes, faults>>
    /\ UNCHANGED <<onchain, rows, reads, cache, bridge, price, used, moved, changes>>

\* The quote stage runs out of time, or a read fails.
QuoteStageFails(c) ==
    /\ pc[c] \in {"merchant", "route", "price", "anchor", "search"}
    /\ Fault
    /\ Goto(c, "failed")
    /\ UNCHANGED <<onchain, rows, reads, cache, bridge, price, quotes, sessions, used, moved,
                   changes>>

-----------------------------------------------------------------------------
(* The others *)

Change == changes < MaxChanges /\ changes' = changes + 1

\* External: a swapper is reconfigured, its pools are drained or refilled.
ChangeChain(ch) ==
    /\ Change
    /\ \E s \in ChainStates \ {onchain[ch]} : onchain' = [onchain EXCEPT ![ch] = s]
    /\ moved' = moved \cup {c \in Calls : pc[c] # "start"}
    /\ UNCHANGED <<rows, pc, reads, cache, bridge, price, quotes, sessions, used, faults>>

\* UpsertMySettlementProfile and the administrator's: the tokens must be listed.
UpsertSettlementProfile(p) ==
    /\ Change
    /\ p # profile
    /\ {<<p.chain, p.token>>, <<p.chain, p.bridge>>} \subseteq Listed
    /\ p.wallet # ""
    /\ profile' = p
    /\ stored' = stored \cup {p}
    /\ UNCHANGED <<ask, onchain, suspended, pc, reads, cache, bridge, price, quotes, sessions, used,
                   moved, faults>>

\* External: the merchant's row is suspended or activated in the database; the
\* administrator's endpoint for it answers success and writes nothing.
MerchantStatusChanges ==
    /\ Change
    /\ suspended' = ~suspended
    /\ UNCHANGED <<ask, onchain, profile, stored, pc, reads, cache, bridge, price, quotes, sessions,
                   used, moved, faults>>

Step(c) == \/ StartQuote(c)
           \/ StartPayment(c)
           \/ ReadSettlement(c)
           \/ BridgeDirect(c)
           \/ SourceDirect(c)
           \/ CheckRoute(c)
           \/ Price(c)
           \/ Anchor(c)
           \/ Search(c)
           \/ SaveQuote(c)
           \/ SessionStage(c)
           \/ QuoteStageFails(c)

Next == \/ \E c \in Calls : Step(c)
        \/ \E ch \in Chains : ChangeChain(ch)
        \/ \E p \in Profiles : UpsertSettlementProfile(p)
        \/ MerchantStatusChanges

Spec == Init /\ [][Next]_vars

-----------------------------------------------------------------------------
(* Properties *)

\* Whichever engine stands in for whichever, a 1:1 answer for two different
\* tokens is only ever relied on when the quoter computed it hop by hop: the
\* swapper's placeholder never becomes a price, nor an anchor of the search.
NoPlaceholderRelied ==
    \A c \in Calls : \A u \in used[c] :
        u.leg.in # u.leg.out /\ u.answer.amount = u.given => u.answer.by = "hops"

\* What one call prices hop by hop on a chain, it prices along one route, and
\* never with two pool configurations, although the swapper is reconfigured
\* between its probes (the search compares their answers). A probe whose read of
\* the pools fails is priced by the common tiers, without a configuration, and
\* may stand beside others that have one; nothing else may.
OneRoutePerCall ==
    \A c \in Calls : \A u, v \in used[c] :
        u.leg = v.leg /\ u.answer.by = "hops" /\ v.answer.by = "hops" =>
            /\ u.route.path = v.route.path
            /\ u.route.pool # v.route.pool => None \in {u.route.pool, v.route.pool} /\ c \in moved

\* What an amount buys on a chain, as the call would quote it now
Buys(c, ch, in, out, amount) ==
    IF in = out THEN amount ELSE Quote(c, ch, in, out, amount, Complete(c, ch)).amount

\* A cross-chain invoice quoted while nothing moved and every read of the pools
\* was answered is paid in full: the quoted amount buys the bridge amount, and
\* that buys the invoice, provided the bridge token has as many decimals on both
\* chains.
InvoiceCovered ==
    \A c \in Calls :
        LET p == snap[c]
        IN  /\ pc[c] \in {"save", "session", "answered"} /\ c \notin moved
            /\ Dry(c) /\ ask[c].pricing = "invoice_currency" /\ ~SameChain(c)
            /\ Decimals[ask[c].chain][p.bridge] = Decimals[p.chain][p.bridge]
            => /\ Buys(c, ask[c].chain, ask[c].token, p.bridge, price[c].amount) >= bridge[c]
               /\ Buys(c, p.chain, p.bridge, p.token, bridge[c]) >= InvoiceAtomic(c)

\* A session pays out as one settlement profile said: chain, token and wallet
\* of one stored version, however the profile is replaced during the call.
SettlementIsOneVersion ==
    \A s \in sessions :
        \E p \in stored : /\ s.chain = p.chain
                          /\ s.token = p.token
                          /\ s.wallet = ResolveMerchantWallet(p)

\* However it ends, a call leaves at most one quote: probes leave none. A quote
\* is used exactly when its session exists, at its amount; a failed payment's
\* quote may stay active, and nothing but that quote.
CallLeavesOneQuote ==
    /\ \A q, r \in quotes : q.call = r.call => q = r
    /\ \A q \in quotes : Dry(q.call) =>
          (q.status = "used" <=> \E s \in sessions : s.call = q.call)
    /\ \A s \in sessions :
          \E q \in quotes : q.call = s.call /\ q.amount = s.amount

=============================================================================
