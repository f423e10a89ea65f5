SPECIFICATION Spec
CONSTANTS
    Users = {ada, bob}
    Requests = {r1}
    NoUser = NoUser
    MaxRejects = 1
    MaxRedates = 0
SYMMETRY Symmetry
INVARIANT UsableAdminRemains
CHECK_DEADLOCK FALSE
