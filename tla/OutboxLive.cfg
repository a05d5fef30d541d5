SPECIFICATION FairSpec
CONSTANTS
    Event = {1}
    HandlerCount = 2
    Relay = {r1, r2}
    Consumer = {c1, c2}
    BatchSize = 1
    Attempts = 3
    MaxStalled = 1
    MaxFaults = 4
    MaxLosses = 1
    None = None
INVARIANTS
    CompletedMeansHandled
PROPERTIES
    ImplementsDelivery
    EventuallyHandled
CHECK_DEADLOCK FALSE
