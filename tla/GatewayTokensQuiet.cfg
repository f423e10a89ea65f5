SPECIFICATION Spec
CONSTANTS
    Keys = {}
    Sessions = {s1}
    Gateways = {g1}
    Audiences = {}
    Default = Default
    Requests = {r1}
    Writers = {w1}
    Nothing = Nothing
    CacheMax = 3
    Life = 4
    Margin = 2
    NegativeTTL = 1
    MaxEntries = 1
    MaxStall = 1
    MaxTime = 3
    Mixed = {s1}
    Crowd = {}
    Budgets <- OneEnd
SYMMETRY Symmetry
INVARIANT EndedSessionsOpenNothing
CHECK_DEADLOCK FALSE
