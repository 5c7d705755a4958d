-------------------------- MODULE MCPartnerPricing --------------------------
\* One merchant; a payment priced in the invoice's currency, one of a fixed
\* amount, a partner quote. Prices such that a true 1:1 rate exists.
EXTENDS PartnerPricing

MCChains == {"base", "arb"}
MCSymbols == {"USDC", "IDRX", "WETH"}
MCListed == (MCChains \X MCSymbols) \ {<<"base", "IDRX">>}
MCDecimals == [ch \in MCChains |-> [s \in MCSymbols |-> IF s = "WETH" THEN 1 ELSE 0]]
MCWorth == [s \in MCSymbols |-> CASE s = "USDC" -> 2 [] s = "IDRX" -> 1 [] s = "WETH" -> 3]

State(route, active, fee, pools, swapper, simulator, router, quoter) ==
    [route |-> route, active |-> active, fee |-> fee, pools |-> pools, swapper |-> swapper,
     simulator |-> simulator, router |-> router, quoter |-> quoter]

\* A healthy swapper; placeholders with and without pools; a route of two hops
\* whose configured pool is inactive; one without route and quoter.
MCChainStates ==
    {State("direct", TRUE, 500, {500}, "real", "none", TRUE, TRUE),
     State("direct", TRUE, 3000, {500, 3000}, "placeholder", "placeholder", TRUE, TRUE),
     State("hub", FALSE, 3000, {100, 3000}, "fails", "real", TRUE, TRUE),
     State("direct", TRUE, 500, {}, "placeholder", "placeholder", TRUE, FALSE),
     State(None, FALSE, 0, {}, "placeholder", "none", FALSE, FALSE)}

MCProfiles ==
    {[chain |-> "arb", token |-> "IDRX", bridge |-> "USDC", wallet |-> "w1"],
     [chain |-> "base", token |-> "USDC", bridge |-> "USDC", wallet |-> "w2"],
     [chain |-> "arb", token |-> "WETH", bridge |-> "USDC", wallet |-> ""]}

Payment(chain, token, pricing, units, digits, kind, seconds) ==
    [kind |-> "payment", chain |-> chain, token |-> token, pricing |-> pricing,
     amount |-> [units |-> units, digits |-> digits],
     expires |-> [kind |-> kind, seconds |-> seconds]]

\* Payments priced by the invoice and in the payer's token, in the bridge token
\* and in another, with too many decimals, with expiries at the limits; quotes.
MCAsks ==
    {Payment("base", "WETH", "invoice_currency", 4, 0, "default", 0),
     Payment("base", "USDC", "invoice_currency", 4, 0, "unlimited", 0),
     Payment("arb", "WETH", "invoice_currency", 4, 0, "seconds", 30),
     Payment("arb", "WETH", "payment_token_fixed", 15, 1, "seconds", 86400),
     Payment("arb", "USDC", "payment_token_fixed", 15, 1, "default", 0),
     Payment("arb", "WETH", "payment_token_fixed", 5, 0, "seconds", 29)}
    \cup {[kind |-> "quote", chain |-> "arb", token |-> t, invoice |-> i,
           amount |-> [units |-> 5, digits |-> 0]] :
              <<t, i>> \in {<<"IDRX", "WETH">>, <<"USDC", "IDRX">>}}
=============================================================================
