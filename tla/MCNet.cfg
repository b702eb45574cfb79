SPECIFICATION Spec
CONSTANTS
    Clients = {c1, c2, c3}
    Users = {c1, c2}
    Server = server
    DictLines <- MCDictLines
    UserWords <- MCUserWords
    CRLF = CRLF
    Requests <- MCRequests
    FileNames = {"/index.html", "/404.html", ""}
    Sizes <- MCSizes
    Uninitialized = {0, 200}
    MaxForkFailures = 1
    MaxAsked = 2
    MaxNetFaults = 1
    MaxThreadFailures = 2
    MaxEdits = 1
INVARIANTS
    TypeOK
    Isolation
    AsRequested
    AnswersMatch
PROPERTIES
    ClientsServed
    HandlerEnds
    ClientsGoOn
