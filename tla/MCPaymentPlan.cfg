CONSTANTS
    r1 = r1
    r2 = r2
    Requests = {r1, r2}
    Admins = {a1}
    a1 = a1
    SourceKind = "eip155"
    DestKind = "eip155"
    Inputs <- MCInputs
    PolicyInputs <- MCPolicyInputs
    BridgeNames <- MCBridgeNames
    FeeRows <- MCFeeRows
    Chains <- MCChains
    Precision = 30000
    MaxInt64 = 2
    MaxRows = 2
    MaxChanges = 2
SPECIFICATION Spec
SYMMETRY Symmetry
INVARIANTS
    FeesAddUp
    AdminPolicyWins
    DeletedStaysDeleted
    ApprovalCoversCharge
CHECK_DEADLOCK FALSE
