\* Three consumers, two values, at most four queued elements.
SPECIFICATION MCSpec
CONSTANTS
    Consumers = {c1, c2, c3}
    Values = {a, b}
    MaxLen = 4
INVARIANTS
    NoLostWakeup
    NoSleepAfterShutdown
PROPERTY
    SleepersServed
