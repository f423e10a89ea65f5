SPECIFICATION Spec
CONSTANTS
    Users = {ada}
    Clients = {app}
    Sessions = {laptop}
    UserOf <- OneUser
    Requests = {q1}
    NoSession = NoSession
    Never = Never
    Ttl = 1
    MaxLifetime = 2
    Grace = 2
    MaxStall = 1
    RevokeOnLogout = FALSE
    Budgets <- RejectBudget
SYMMETRY Symmetry
INVARIANT RejectionTakesTheTokens
CHECK_DEADLOCK FALSE
