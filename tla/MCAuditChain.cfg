\* Three operations that overlap, two runtimes anchoring from stale backlogs.
SPECIFICATION ChainSpec
CONSTANTS
    e1 = e1
    e2 = e2
    e3 = e3
    a1 = a1
    a2 = a2
    Events = {e1, e2, e3}
    Anchorers = {a1, a2}
    NoRow = NoRow
CHECK_DEADLOCK FALSE
SYMMETRY Symmetry
INVARIANTS
    ChainIsContiguous
PROPERTIES
    AnchorsHold
    IsAppendLog
