SPECIFICATION Spec
CONSTANTS
    Keys = {k1, k2, k3}
    Rotators = {r1, r2}
    NoKey = NoKey
    NoRotator = NoRotator
    Window = 2
    Interval = 3
    Grace = 3
    TokenLife = 3
    MaxStall = 1
    MaxCrashes = 1
    MaxTime = 6
SYMMETRY Symmetry
INVARIANTS TypeOK IssuedTokensVerify 
 
CHECK_DEADLOCK FALSE
