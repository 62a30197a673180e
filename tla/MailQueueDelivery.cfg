SPECIFICATION FairSpec
CONSTANTS
    Messages = {m1, m2}
    Workers = {sweeper, request}
    Sweeper = sweeper
    MaxAttempts = 2
    BackoffBase = 1
    BackoffMax = 3
    Lease = 2
    RelayTimeout = 1
    Retriable = {"parked"}
    Faults = {"write", "reply", "cancel", "crash"}
    MaxFailures = 1
    None = none
    m1 = m1
    m2 = m2
    sweeper = sweeper
    request = request
INVARIANTS OneAttemptAtATime DeliveredOnce
PROPERTY Settles
