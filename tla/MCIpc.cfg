SPECIFICATION Spec
CONSTANTS
    Runs = {r1, r2}
    Servers = {s1, s2}
    Clients = {c1, c2}
    Nobody = Nobody
    PoolParent = parent
    Codes = {code}
    ProcessNum = 3
    Commands = 4
    MaxKills = 1
    MaxSemFaults = 2
    PipeCapacity = 2
    MaxWrites = 2
    MaxPipeFaults = 2
    QueueCapacity = 1
    MaxLines = 2
    MaxChatFaults = 1
    MaxStarts = 3
    SellerThreads = 4
    Tickets = 5
    LogProcesses = {server, child}
    First = server
    MaxLogLines = 3
    MaxLogFaults = 1
INVARIANTS
    TypeOK
    ExitsDrained
    Exclusive
    PrintedAsSent
    NoneLost
    LogIntact
PROPERTIES
    WaitsEnd
