SPECIFICATION LFairSpec
CONSTANTS
    Conns = {c1}
    Salt <- MCSalt
    Stranger = "stranger"
    MaxSends = 3
    MaxWire = 2
    MaxSplits = 1
    g = 3
    N = 7
    KEY_LENGTH = 6
INVARIANTS
    SessionsProven
    OrderlyPeersDoNotKill
    OrderlyRepliesIntact
    RefusalsDeserved
    SameKey
PROPERTY
    PeersServed
