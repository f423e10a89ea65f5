SPECIFICATION Spec
CONSTANTS
    Users = {ada}
    Clients = {app}
    Sessions = {laptop}
    UserOf <- OneUser
    Requests = {q1}
    NoSession = NoSession
    Never = Never
    Ttl = 1
    MaxLifetime = 2
    Grace = 2
    MaxStall = 0
    RevokeOnLogout = FALSE
    Budgets <- CeilingBudget
SYMMETRY Symmetry
INVARIANT NothingOutlivesTheMaximum
CHECK_DEADLOCK FALSE
