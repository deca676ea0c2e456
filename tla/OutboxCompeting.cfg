SPECIFICATION FairSpec
CONSTANTS
    d1 = d1
    d2 = d2
    Dispatchers = {d1, d2}
    Rows <- MCRows
    AggregateOf <- TwoAggregates
    Unregistered <- MCFirstUnregistered
    MaxAttempts = 2
    BatchSize = 2
    HandlerTimeout = TRUE
    MaxFaults = 2
INVARIANTS
    LockExclusive
    LiveDispatchIsPending
    AttemptsBounded
    NoSpuriousQuarantine
    RedeliveryNeedsFault
PROPERTIES
    DeliversAtLeastOnce
    EveryRowSettles
    QuarantineIsFinal
