\* Two runtimes, one of them without a passphrase sink, one credential export
\* and one plain one; every fault.
SPECIFICATION Spec
CONSTANTS
    j1 = j1
    j2 = j2
    w1 = w1
    w2 = w2
    r1 = r1
    Jobs = {j1, j2}
    Secretful = {j1}
    Workers = {w1, w2}
    WithSink = {w1}
    Readers = {r1}
    Credentials = 0
    MaxDownloads = 1
    Faults = {"abort", "ack_lost", "crash", "file", "stop"}
    NoJob = NoJob
    NoKey = NoKey
CHECK_DEADLOCK FALSE
INVARIANTS
    TypeOK
    OneRenderer
    DownloadableIsOpenable
    DownloadsRecorded
PROPERTIES
    RevocationIsFinal
    OffersKeepBytes
    NothingIsOrphaned
