SPECIFICATION Spec
CONSTANTS
    Event = {1}
    HandlerCount = 1
    Relay = {r1}
    Consumer = {c1, c2}
    BatchSize = 1
    Attempts = 8
    MaxStalled = 1
    MaxFaults = 2
    MaxLosses = 0
    None = None
INVARIANTS
    NothingLost
CHECK_DEADLOCK FALSE
