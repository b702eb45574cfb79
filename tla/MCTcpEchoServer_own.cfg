SPECIFICATION Safety
CONSTANTS
    Clients = {c1, c2, c3}
    NumFds = 4
    MaxLines = 1
    MaxThreadFailures = 0
INVARIANT AnswersAreOwn
