SPECIFICATION Spec
CONSTANTS
  r1 = r1
  r2 = r2
  r3 = r3
  r4 = r4
  Req <- FourReq
  Kind <- MixedKind
  MaxNewTokens <- Budgets
  PromptLen <- Lengths
  Greedy <- GreedyReq
  ChunkTokens = 2
  MaxLen = 10
  PreBuckets = {1, 4}
  DecodeChunk = 2
  SpecTokens = 2
CHECK_DEADLOCK FALSE
INVARIANTS
  AttendsOwnTokens
  ReplyIsTargets
  DraftFollows
  WritesFit
