SPECIFICATION Spec
CONSTANTS
    Producers = {p1, p2}
    Consumers = {c1, c2, c3}
    Cap = 2
    Items = {a, b}
    Unset = a
INVARIANTS
    TypeOK
    WakeupsInFlight
PROPERTIES
    ImplementsFIFO
