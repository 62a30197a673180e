SPECIFICATION FairServing
CONSTANTS
    Contents = {c1}
    FileIds = {f1, f2, f3, f4}
    Users = {u1}
    Handlers = {h1, h2}
    Settings = {s1}
    CopyRoles = {}
    Size <- UnitSize
    Quota <- QuotaOfTwo
    TotalLimit = 3
    Faults = {"save"}
    Anonymous = anonymous
    None = none
    c1 = c1
    c2 = c2
    f1 = f1
    f2 = f2
    f3 = f3
    f4 = f4
    u1 = u1
    u2 = u2
    h1 = h1
    h2 = h2
    s1 = s1
    s2 = s2
INVARIANTS UsageExact NoStrayObjects LimitsHold
PROPERTIES UnfiledBytesGo
