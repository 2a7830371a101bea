SPECIFICATION FairSpec
CONSTANTS
  r1 = r1
  r2 = r2
  r3 = r3
  s1 = s1
  s2 = s2
  Req <- ThreeReq
  Session = {s1, s2}
  Kind <- BranchKind
  MaxNewTokens <- SmallMax
  SessionOf <- SharedSession
  Prompt <- SharedPrompt
  ChunkTokens = 2
  MaxBurst = 2
  SilentTokens = FALSE
  ExecutorMayRaise = FALSE
  UsesPagedKV = TRUE
  SupportsPrefixCache = TRUE
  NumPages = 9
  PageSize = 2
  MaxEntries = 1
  Readers <- AllButOne
CHECK_DEADLOCK FALSE
INVARIANTS
  PrefixHitFits
  UsedPrefixStaysCached
PROPERTY
  ReadersEnd
