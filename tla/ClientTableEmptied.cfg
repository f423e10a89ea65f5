SPECIFICATION Spec
CONSTANTS
    c1 = c1
    c2 = c2
    Clients = {c1, c2}
    Admins = {u1}
    Writers = {w1, w2}
    Boot = Boot
    File = File
    None = None
    Files <- SmallFiles
    FileSecret = 1
    Subjects = {c1}
    Budgets <- StartsOnly
    MaxSecrets = 3
INVARIANT RemovedClientsAreDisabled
CHECK_DEADLOCK FALSE
