\* Two callback objects, chains of up to three functions.
CONSTANTS
  e1 = e1
  e2 = e2
  Entries <- TwoEntries
  MaxChain = 3
SPECIFICATION CFairSpec
INVARIANTS
  EntriesAccounted
  InvokedWasExecuted
  AbortNeedsMisuse
PROPERTY
  ReadyIsServed
