\* An expiration with three thresholds, one of them unheard, that is renewed once; no operations.
SPECIFICATION FairSpec
CONSTANTS
    e1 = e1
    e2 = e2
    step = step
    person = person
    hook = hook
    mail = mail
    Events = {}
    Anchorers = {}
    NoRow = NoRow
    Endpoints = {hook, mail}
    Mail = {mail}
    Alerts = {0, 1, 2}
    Assigned = {}
    Overdue = {}
    Wants <- MCWants
    FanoutBatch = 1
    MaxAttempts = 2
    MaxMishaps = 1
    Nothing = Nothing
    Horizon = 2
    MaxPeriod = 1
CHECK_DEADLOCK FALSE
INVARIANTS
    AlertsAccountedFor
PROPERTIES
    WarningsSettle
