\* Two configured workers, no retry of Open.
SPECIFICATION PFairSpec
CONSTANTS
    Consumers = {c1, c2}
    Values = {o1, o2, o3}
    AsyncThreads = 2
    SynchThreads = 1
    Attempts = 0
    NoOp = NoOp
    NoConn = NoConn
INVARIANTS
    OpenedPoolServes
PROPERTIES
    DestructorsEnd
    QueuedIsExecuted
