SPECIFICATION MCSpec
CONSTANTS
  NumPages = 3
  MaxRefs = 3
  MaxFree = 2
INVARIANTS
  TypeOK
  PoolConsistent
PROPERTY
  ImplementsPool
