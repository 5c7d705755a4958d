CONSTANTS
    paid = paid
    unknown = unknown
    Payments <- MCPayments
    Foreign <- MCForeign
    Attributed <- MCPayments
    Reports <- MCReports
    Handlers = {h1, h2}
    MaxSends = 2
    MaxFaults = 1
    MaxCrashes = 1
SPECIFICATION Spec
INVARIANTS
    StatusFromLastEvent
    AckedIsRecorded
    NoticesAccounted
PROPERTIES
    BackOnlyToRecorded
CHECK_DEADLOCK FALSE
