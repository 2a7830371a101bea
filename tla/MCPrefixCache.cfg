SPECIFICATION ClientsSpec
CONSTANTS
  Client = {c1, c2}
  Tokens <- SomeTokens
  Counts = {0, 1, 2}
  MaxEntries = 2
  MaxInserts = 4
INVARIANT
  RefsCountHolders
PROPERTIES
  HeldEntryStays
  InsertKeepsCapacity
CHECK_DEADLOCK FALSE
