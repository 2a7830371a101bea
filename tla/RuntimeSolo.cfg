SPECIFICATION SoloSpec
CONSTANTS
  r1 = r1
  r2 = r2
  r3 = r3
  s1 = s1
  s2 = s2
  Req <- ThreeReq
  Session = {s1, s2}
  Kind <- BranchKind
  MaxNewTokens <- MixedMax
  SessionOf <- OneSession
  Prompt <- MixedPrompt
  ChunkTokens = 2
  MaxBurst = 2
  SilentTokens = TRUE
  ExecutorMayRaise = TRUE
  UsesPagedKV = FALSE
  SupportsPrefixCache = FALSE
  NumPages = 1
  PageSize = 2
  MaxEntries = 1
  Readers <- NoReaders
CHECK_DEADLOCK FALSE
INVARIANTS
  StreamComplete
  ContextHasReplies
