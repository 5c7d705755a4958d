CONSTANTS
    once = once
    twice = twice
    r1 = r1
    r2 = r2
    r3 = r3
    r4 = r4
    Keys = {once, twice}
    Requests = {r1, r2, r3, r4}
    KeyOf <- MCKeyOf
    Layers <- MCLayers
    MaxFaults = 1
SPECIFICATION Spec
INVARIANTS
    OneAtATime
    ReplayIsGenuine
    NoLockLeft
PROPERTIES
    AllAnswered
CHECK_DEADLOCK FALSE
