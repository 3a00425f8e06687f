SPECIFICATION RSpec
CONSTANTS
    Columns <- CountColumns
    Aliases <- CountAliases
    NumParams = 1
    MaxRows = 2
    MaxLength = 1
    MaxResults = 2
    MaxLosses = 1
    MaxBroken = 1
INVARIANTS
    MemorySound
    RowsAsSent
    CurrentRowReadable
    SentAsSet
    TabledReads
