SPECIFICATION Spec
CONSTANTS
    d1 = d1
    Dispatchers = {d1}
    Rows <- MCThreeRows
    AggregateOf <- OneAggregate
    Unregistered <- MCSecondUnregistered
    MaxAttempts = 2
    BatchSize = 2
    HandlerTimeout = TRUE
    MaxFaults = 2
INVARIANTS
    PerAggregateOrder
    QuarantineReportIsTrue
