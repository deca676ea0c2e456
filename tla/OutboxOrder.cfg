SPECIFICATION Spec
CONSTANTS
    d1 = d1
    d2 = d2
    Dispatchers = {d1, d2}
    Rows <- MCRows
    AggregateOf <- OneAggregate
    Unregistered <- MCNone
    MaxAttempts = 2
    BatchSize = 1
    HandlerTimeout = TRUE
    MaxFaults = 0
INVARIANTS
    PerAggregateOrder
