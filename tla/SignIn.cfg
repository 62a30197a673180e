SPECIFICATION SpecFocus
CONSTANTS
    Users = {u1, u2}
    SessionIds = {s1}
    TokenIds = {t1, t2}
    Emails = {"a"}
    Subjects = {x, y}
    Handlers = {h1, h2}
    MaxPassword = 2
    MaxDrawn = 3
    MaxClock = 1
    Nil = nil
    u1 = u1
    u2 = u2
    s1 = s1
    t1 = t1
    t2 = t2
    x = x
    y = y
    h1 = h1
    h2 = h2
SYMMETRY Symmetric
INVARIANTS CredentialsCurrent DisabledSignedOut FactorConfirmed CodesSpentOnce
PROPERTY IdentitiesKept
CHECK_DEADLOCK FALSE
