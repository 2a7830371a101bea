SPECIFICATION Spec
CONSTANTS
  r1 = r1
  r2 = r2
  Owner <- TwoReq
  PromptLen <- Lengths
  MaxNewTokens <- Budgets
  Reply <- Replies
  WrongKind <- WrongKinds
  Greedy <- GreedyReq
  SpecTokens = 3
  ChunkTokens = 2
  NumPages = 5
  PageSize = 2
  MaxRaises = 1
CHECK_DEADLOCK FALSE
INVARIANTS
  TypeOK
  ExactUntilHarm
  DraftCacheIsPrefix
  MirrorHoldsText
  TablesWithinNeed
  EndsOnce
  TextIsDecoding
  PagesOwnedOnce
PROPERTY
  RollbackIsExact
