SPECIFICATION ServerSpec
CONSTANTS
    c1 = c1
    c2 = c2
    Clients = {c1, c2}
    Admins = {u1}
    Writers = {w1, w2}
    Boot = Boot
    File = File
    None = None
    Files <- SmallFiles
    FileSecret = 1
    Subjects = {c1}
    Budgets <- AllBudgets
    MaxSecrets = 3
    Gateways = {g1}
    Targets = {t1, t2}
    Callers = {a1, a2}
    Starts = {b1, b2}
    GatewayFiles <- SmallGatewayFiles
    Manual = Manual
    Config = Config
    Nobody = Nobody
    MaxRequests = 2
    MaxSweeps = 3
    MaxLosses = 1
    Tokens = {r1, r2}
    Addresses = {x1}
    Client = Client
    Max <- SmallMax
    Window = 2
    MaxClock = 3
    MaxAnswers = 5
    MaxOutages = 1
    Cookies = {d1, d2}
    SignIns = {s1, s2}
    Resets = {z1}
    Days = 2
    NoRow = NoRow
    MaxNow = 5
    Forms = {f1, f2}
    Processes = {p1, p2}
    SignUps = {n1}
    Unlocked = Unlocked
    MaxFaults = 2
    Handlers = {h1, h2, h3}
    MaxBuilds = 3
    NoRuntime = NoRuntime
    Visits = {v1, v2}
    Setters = {a3}
    Sessions = {q1, q2}
    NoSession = NoSession
    MaxPasswords = 2
    Browsers = {k1}
    Asks = {q3}
    Bars = {l1, l2}
    CacheTime = 2
    SignInTime = 1
    NoTime = NoTime
    MaxMinute = 3
INVARIANTS AllTypeOK  LastCallHolds OriginsAreCurrent GatewaysFollowTheFile
    OvershootIsTheConcurrency TrustEndsAtTheCeiling ClearedTrustOpensNothing 
    OneFirstUser ClosedSetupHasAnAdmin 
    PoolsLastAsLongAsTheRequests
PROPERTIES  ManualRowsSurviveASweep  TemporaryPasswordBuysNothing BarsBiteInTime
    WaitersAreAnswered DrainEnds
CHECK_DEADLOCK FALSE
