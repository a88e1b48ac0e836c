SPECIFICATION FairSpec
CHECK_DEADLOCK FALSE
CONSTANTS
  MaxCalls = 5
  MaxFails = 1
INVARIANT TypeOK
INVARIANT ReaderExclusive
INVARIANT ReadsOpenReader
INVARIANT AsAsked
PROPERTY CallsReturn
