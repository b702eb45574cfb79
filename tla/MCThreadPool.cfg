SPECIFICATION Spec
CONSTANTS
    Workers = {w1, w2, w3}
    Callers = {main, c2}
    Main = main
    Tasks = {t1, t2}
    MaxSpawnFailures = 1
    Nobody = Nobody
    NoTask = NoTask
INVARIANTS
    TypeOK
    SingleInstance
    NeverPopsEmpty
    NoLostWakeup
    OnlyLateStranded
PROPERTIES
    StopTerminates
    AcceptedRun
    ImplementsTaskService
