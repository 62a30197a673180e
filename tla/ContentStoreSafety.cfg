SPECIFICATION Spec
CONSTANTS
    Contents = {c1}
    FileIds = {f1, f2}
    Users = {u1}
    Handlers = {h1, h2}
    Settings = {s1, s2}
    CopyRoles = {"clean"}
    Size <- UnitSize
    Quota <- QuotaOfTwo
    TotalLimit = 0
    Faults = {"save", "sync", "delete", "write", "read", "cancel", "crash"}
    Anonymous = anonymous
    None = none
    c1 = c1
    c2 = c2
    f1 = f1
    f2 = f2
    f3 = f3
    f4 = f4
    u1 = u1
    u2 = u2
    h1 = h1
    h2 = h2
    s1 = s1
    s2 = s2
ACTION_CONSTRAINT EitherCopiesOrUploads
SYMMETRY AllSymmetry
INVARIANTS RefcountsExact FilesReadable ServedIfPresent
PROPERTIES LiveFilesStay ImplementsVault
