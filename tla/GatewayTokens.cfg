SPECIFICATION Spec
CONSTANTS
    Keys = {k1, k2, k3, k4, k5}
    Sessions = {s1}
    Gateways = {g1}
    Audiences = {a1}
    Default = Default
    Requests = {r1, r2}
    Writers = {w1}
    Nothing = Nothing
    CacheMax = 3
    Life = 4
    Margin = 2
    NegativeTTL = 1
    MaxEntries = 3
    MaxStall = 1
    MaxTime = 3
    Mixed = {k1, s1}
    Crowd = {k2, k3, k4, k5}
    Budgets <- AllBudgets
SYMMETRY Symmetry
INVARIANTS TypeOK  NeverServedNearItsExpiry AudienceHoldsUnlessReplaced 
    CacheBounded
CHECK_DEADLOCK FALSE
