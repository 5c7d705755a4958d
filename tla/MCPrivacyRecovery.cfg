CONSTANTS
    Failures <- MCFailures
    MaxFailures = 2
SPECIFICATION PrivacySpec
INVARIANTS
    RecoveryIsBacked
    StatusIsBacked
    FundsNeverStranded
PROPERTIES
    NoOfferAfterResolved
CHECK_DEADLOCK FALSE
