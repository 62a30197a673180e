SPECIFICATION Spec
CONSTANTS
    Contents = {c1}
    FileIds = {f1, f2}
    Users = {}
    Handlers = {h1}
    Settings = {s1, s2}
    CopyRoles = {}
    Size <- UnitSize
    Quota <- QuotaOfTwo
    TotalLimit = 0
    Faults = {"save", "reread"}
    Anonymous = anonymous
    None = none
    c1 = c1
    c2 = c2
    f1 = f1
    f2 = f2
    f3 = f3
    f4 = f4
    u1 = u1
    u2 = u2
    h1 = h1
    h2 = h2
    s1 = s1
    s2 = s2
INVARIANT FilesReadable
