\* Two runtimes, a connection that may be saved anew, and up to three mishaps of any kind.
SPECIFICATION FairSpec
CONSTANTS
    c1 = c1
    w1 = w1
    w2 = w2
    old = old
    new = new
    Connections = {c1}
    Workers = {w1, w2}
    Configs = {old, new}
    FirstConfig = old
    ErrorAfter = 2
    Faults = {"abort", "ack_lost", "crash", "stop", "lock_lost"}
    MaxFaults = 3
    MaxFailures = 3
    None = None
CHECK_DEADLOCK FALSE
INVARIANTS
    HealthTellsFailures
    OpenRunsAreLive
PROPERTIES
    SyncsTakeTurns
    RunsAreClosedOnce
    DueIsSynced
