\* One expiration that is renewed once, no audit log, no faults.
SPECIFICATION FairSpec
CONSTANTS
    e1 = e1
    e2 = e2
    step = step
    person = person
    hook = hook
    mail = mail
    Events = {}
    Anchorers = {}
    NoRow = NoRow
    Endpoints = {hook, mail}
    Mail = {}
    Alerts = {1}
    Assigned = {}
    Overdue = {}
    Wants <- MCWants
    FanoutBatch = 1
    MaxAttempts = 1
    MaxMishaps = 0
    Nothing = Nothing
    Horizon = 2
    MaxPeriod = 1
CHECK_DEADLOCK FALSE
PROPERTIES
    EachPeriodIsWarned
