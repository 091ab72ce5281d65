\* Two operations that overlap, an assignment and an overdue step, a webhook and a mailbox, one mishap.
SPECIFICATION FairSpec
CONSTANTS
    e1 = e1
    e2 = e2
    step = step
    person = person
    hook = hook
    mail = mail
    Events = {e1, e2}
    Anchorers = {}
    NoRow = NoRow
    Endpoints = {hook, mail}
    Mail = {mail}
    Alerts = {}
    Assigned = {person}
    Overdue = {step}
    Wants <- MCWants
    FanoutBatch = 1
    MaxAttempts = 2
    MaxMishaps = 1
    Nothing = Nothing
    Horizon = 0
    MaxPeriod = 0
CHECK_DEADLOCK FALSE
INVARIANTS
    TypeOK
    NothingMissed
    TwiceOnlyByMishap
PROPERTIES
    NeverRequeued
    EventsSettle
