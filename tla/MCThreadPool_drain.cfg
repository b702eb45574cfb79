SPECIFICATION Safety
CONSTANTS
    Workers = {w1}
    Callers = {main, c2}
    Main = main
    Tasks = {t1, t2}
    MaxSpawnFailures = 0
    Nobody = Nobody
    NoTask = NoTask
INVARIANT DrainedAtExit
