\* Files may fail, runtimes keep running: every request comes to an end, and so
\* do its bytes.
SPECIFICATION FairSpec
CONSTANTS
    j1 = j1
    j2 = j2
    w1 = w1
    w2 = w2
    r1 = r1
    Jobs = {j1, j2}
    Secretful = {j1}
    Workers = {w1, w2}
    WithSink = {w1}
    Readers = {r1}
    Credentials = 1
    MaxDownloads = 1
    Faults = {"file"}
    NoJob = NoJob
    NoKey = NoKey
CHECK_DEADLOCK FALSE
PROPERTIES
    KeepsLifecycle
    RequestsSettle
    ExpiredBytesGo
