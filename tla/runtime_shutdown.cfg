SPECIFICATION FairRuntime
CONSTANTS
    r1 = r1
    r2 = r2
    w1 = w1
    w2 = w2
    Poller = Poller
    Requests = {r1, r2}
    ApiRequests = {r1}
    Workers = {w1}
    Size = 1
    BatchSize = 1
    MaxPasses = 1
INVARIANTS ShutdownOrder
PROPERTIES ProcessExits
CHECK_DEADLOCK FALSE
