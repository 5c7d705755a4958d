CONSTANTS
    Calls <- MCCalls
    Ops <- MCOps
    InitAdapters <- MCInitAdapters
    Others = {"hyper2", "other"}
    Deployed = {"hyper", "stargate"}
    HasSetChainConfig = TRUE
    Quoted = {0}
    Outages <- MCOutages
    MaxAttempts = 2
    MaxFaults = 2
SPECIFICATION RouteSpec
INVARIANTS
    PreflightAgrees
    SuccessIsAchieved
PROPERTIES
    DefaultAfterAdapter
CHECK_DEADLOCK FALSE
