SPECIFICATION Spec
CONSTANTS
    Half = 4
    Radix = 4
    Requests <- MCRequests
    Garbage <- MCGarbage
    Mistyped <- MCMistyped
    BadHeaders <- MCBadHeaders
    MaxAsked = 2
INVARIANTS
    TypeOK
    Framing
    EndsForCause
PROPERTIES
    RoundTrip
    ImplementsCalculator
