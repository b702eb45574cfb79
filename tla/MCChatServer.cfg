SPECIFICATION Spec
CONSTANTS
    Clients = {c1, c2}
    Workers = {w1, w2}
    MaxExtra = 1
    Nobody = Nobody
INVARIANTS
    TypeOK
    OnlineIffNotQuit
PROPERTIES
    AllRouted
    ImplementsChatRoom
