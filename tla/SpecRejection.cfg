SPECIFICATION Spec
CONSTANTS
  r1 = r1
  r2 = r2
  Owner <- TwoReq
  PromptLen <- Lengths
  MaxNewTokens <- Budgets
  Reply <- Replies
  WrongKind <- WrongKinds
  Greedy <- GreedyReq
  SpecTokens = 3
  ChunkTokens = 3
  NumPages = 8
  PageSize = 2
  MaxRaises = 0
CHECK_DEADLOCK FALSE
INVARIANT
  ReplyIsTargets
