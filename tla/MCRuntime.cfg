\* A service and a --once run that may be killed or cut off: three jobs, one slot of a pool of three.
SPECIFICATION FairSpec
CONSTANTS
    a = a
    b = b
    c = c
    r1 = r1
    r2 = r2
    Jobs = {a, b, c}
    Position <- InOrder
    Every <- EveryTick
    Runtimes = {r1, r2}
    Once = {r2}
    PoolMax = 3
    None = None
    Faults = {"kill", "conn_lost"}
INVARIANTS
    OneRunner
PROPERTIES
    ShutdownIsClean
    RunsEnd
    StopEnds
    OnlyJobsAheadDelay
