SPECIFICATION FairSpec
CONSTANTS
    r1 = r1
    r2 = r2
    w1 = w1
    w2 = w2
    Poller = Poller
    Requests = {r1, r2}
    Workers = {w1, w2}
    Size = 1
    BatchSize = 1
    MaxPasses = 2
INVARIANTS NoSendOnClosed StatsBalance
PROPERTIES BoardSpec HintsAreHandled
CHECK_DEADLOCK FALSE
