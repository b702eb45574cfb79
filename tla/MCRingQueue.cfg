SPECIFICATION Spec
CONSTANTS
    Producers = {p1, p2}
    Consumers = {c1, c2}
    Cap = 2
    Items = {a, b}
    Unset = a
    Nobody = Nobody
INVARIANTS
    TypeOK
    NoSlotRace
PROPERTIES
    ImplementsFIFO
