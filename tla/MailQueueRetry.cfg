SPECIFICATION Spec
CONSTANTS
    Messages = {m1, m2}
    Workers = {sweeper, request}
    Sweeper = sweeper
    MaxAttempts = 2
    BackoffBase = 1
    BackoffMax = 3
    Lease = 2
    RelayTimeout = 1
    Retriable = {"parked", "queued"}
    Faults = {}
    MaxFailures = 0
    None = none
    m1 = m1
    m2 = m2
    sweeper = sweeper
    request = request
INVARIANT DeliveredOnce
