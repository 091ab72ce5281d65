\* A schedule that comes due once, two runtimes, two people and one step that is due at once.
SPECIFICATION FairSpec
CONSTANTS
    w1 = w1
    w2 = w2
    ann = ann
    bob = bob
    s1 = s1
    Raisers = {w1, w2}
    People = {ann, bob}
    Steps = {s1}
    Nobody = Nobody
    NoStep = NoStep
    NoReminder = NoReminder
    MaxDay = 1
    Interval = 1
    DueAfter = 0
    MaxEvents = 3
    Leads = {0, 1}
    MaxAttempts = 2
CHECK_DEADLOCK FALSE
INVARIANTS
    TypeOK
    SlotRaisedOnce
    RemindedOnce
PROPERTIES
    CompletedStays
    SlotsDealtWith
    RemindersSettle
