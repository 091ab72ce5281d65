\* Two credential exports of one client; one of them is revoked while it renders.
SPECIFICATION Spec
CONSTANTS
    j1 = j1
    j2 = j2
    w1 = w1
    w2 = w2
    r1 = r1
    Jobs = {j1, j2}
    Secretful = {j1, j2}
    Workers = {w1}
    WithSink = {w1}
    Readers = {}
    Credentials = 1
    MaxDownloads = 1
    Faults = {}
    NoJob = NoJob
    NoKey = NoKey
CHECK_DEADLOCK FALSE
PROPERTY
    RevokedYieldsNothing
