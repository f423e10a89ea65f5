SPECIFICATION Spec
CONSTANTS
    Users = {ada, bob}
    Requests = {r1, r2}
    NoUser = NoUser
    MaxRejects = 1
    MaxRedates = 1
SYMMETRY Symmetry
INVARIANTS TypeOK LastAdminLostOnlyToARace
CHECK_DEADLOCK FALSE
