SPECIFICATION Spec
CONSTANTS
    Clients = {}
    Users = {}
    Server = server
    DictLines <- MCDictLines
    UserWords = {}
    CRLF = CRLF
    Requests <- MCRequests
    FileNames = {"/index.html", "/404.html"}
    Sizes = {2}
    Uninitialized = {0}
    MaxForkFailures = 0
    MaxAsked = 0
    MaxNetFaults = 0
    MaxThreadFailures = 0
    MaxEdits = 0
INVARIANT UnknownRouteAnswered
