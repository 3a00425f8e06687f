\* Two connections, two operations of up to two queries, at most one loss and two
\* errors.
SPECIFICATION TFairSpec
CONSTANTS
    Conns = {c1, c2}
    Tasks = {t1, t2}
    MaxQueries = 2
    ReconnectAttempts = 2
    DirectRetries = 1
    MaxLosses = 1
    MaxErrors = 2
    NoTask = NoTask
    NoConn = NoConn
INVARIANTS
    AtomicWithoutFault
    TruthfulWithoutFault
    DuplicatesNeedFaults
    LeftOpenNeedsRefusal
PROPERTY
    TasksEnd
