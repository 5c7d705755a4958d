SPECIFICATION Spec
CONSTANTS
    Calls = {c1}
    Asks <- MCAsks
    Chains <- MCChains
    Symbols <- MCSymbols
    Listed <- MCListed
    Decimals <- MCDecimals
    Worth <- MCWorth
    Hub = "USDC"
    ChainStates <- MCChainStates
    Profiles <- MCProfiles
    PrimaryWallet = "w0"
    None = None
    MaxAmount = 80
    MaxChanges = 2
    MaxFaults = 1
INVARIANTS
    NoPlaceholderRelied
    OneRoutePerCall
    InvoiceCovered
    SettlementIsOneVersion
    CallLeavesOneQuote
CHECK_DEADLOCK FALSE
