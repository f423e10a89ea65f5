SPECIFICATION Spec
CONSTANTS
    Users = {ada}
    Clients = {app}
    Sessions = {laptop, phone}
    UserOf <- OneUser
    Requests = {q1, q2}
    NoSession = NoSession
    Never = Never
    Ttl = 1
    MaxLifetime = 2
    Grace = 2
    MaxStall = 1
    RevokeOnLogout = FALSE
    Budgets <- AllBudgets
SYMMETRY Symmetry
INVARIANTS TypeOK  OneTokenPerGrant SpentTokensAreRemembered
CHECK_DEADLOCK FALSE
