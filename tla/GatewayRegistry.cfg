SPECIFICATION FairSpec
CONSTANTS
    Lookups = {q1, q2}
    Loads = {l1, l2, l3}
    Writers = {w1, w2}
    TTL = 1
    MaxWrites = 2
    MaxExternal = 1
    MaxFailures = 1
    None = None
INVARIANTS TypeOK VisibleUnlessTheMapWasOvertaken LoadsBoundedByResets
CHECK_DEADLOCK FALSE
PROPERTY EventuallyCurrent
