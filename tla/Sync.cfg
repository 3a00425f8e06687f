\* Two clients on two connections; at most one statement is held, so that a
\* connection is left for the other calls.
CONSTANTS
  k1 = k1
  k2 = k2
  Clients <- TwoClients
  NumCons = 2
  IndexModulus = 3
  MaxJit = 1
  MaxCalls = 3
  MaxLosses = 2
  MaxErrors = 1
  NoClient = NoClient
  NoCon = NoCon
  NoStmt = NoStmt
SPECIFICATION SFairSpec
INVARIANTS
  LocksAccounted
  HeldStatementIsFresh
  CrashNeedsFault
PROPERTY
  CallsEnd
