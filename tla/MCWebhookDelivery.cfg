CONSTANTS
    NDeliveries = 2
    Admins = {a1}
    BadCallback = {1}
    BatchSize = 2
    MaxRetries = 3
    MaxManual = 1
    MaxStops = 1
    MaxLost = 1
    MaxLookups = 1
SPECIFICATION Spec
INVARIANTS
    AttemptsBounded
    DuplicatesAccounted
    DeliveringHasWorkerUnlessInterrupted
PROPERTIES
    Implements
    EventuallySettled
CHECK_DEADLOCK FALSE
