\* Two configured workers, one retry of Open.
SPECIFICATION PSpec
CONSTANTS
    Consumers = {c1, c2, c3, c4}
    Values = {o1, o2, o3}
    AsyncThreads = 2
    SynchThreads = 1
    Attempts = 1
    NoOp = NoOp
    NoConn = NoConn
INVARIANTS
    OpenedPoolServes
