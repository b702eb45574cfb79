SPECIFICATION Spec
CONSTANTS
    Clients = {c1, c2, c3}
    NumFds = 4
    MaxLines = 2
    MaxThreadFailures = 1
INVARIANTS
    TypeOK
    Undisturbed
PROPERTY EveryClientAttended
