SPECIFICATION FocusSpec
CONSTANTS
    Keys = {k1, k2}
    MaxKeys = 1
    Cost = 2
    Burst = 2
    Interval = 2
    TTL = 1
    MaxTime = 4
    Requests = {r1, r2}
    Nobody = nobody
    Processing = processing
    Exports = exports
    Limit <- MCLimit
    k1 = k1
    k2 = k2
    k3 = k3
    r1 = r1
    r2 = r2
    processing = processing
    exports = exports
INVARIANTS TableBounded BudgetKept SlotsExact
PROPERTY SlotsComeBack
