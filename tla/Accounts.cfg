SPECIFICATION SpecFocus
CONSTANTS
    Accounts = {u1, u2, u3}
    Codes = {c1}
    Handlers = {h1, h2}
    MostUses = 2
    DelegatedUses = 1
    Roles = {"member", "moderator", "admin"}
    Delegation = TRUE
    None = none
    u1 = u1
    u2 = u2
    u3 = u3
    c1 = c1
    c2 = c2
    h1 = h1
    h2 = h2
SYMMETRY Interchangeable
INVARIANTS CodesHaveIssuers UsesExact
PROPERTIES AdminRemains CodesAdmitWhileOpen DelegationBounded
