\* A SUM of a DOUBLE column, on the bounds of Results.cfg.
SPECIFICATION RSpec
CONSTANTS
    Columns <- SumColumns
    Aliases <- SumAliases
    NumParams = 1
    MaxRows = 2
    MaxLength = 1
    MaxResults = 2
    MaxLosses = 1
    MaxBroken = 1
INVARIANT GuidelineReads
