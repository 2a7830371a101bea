SPECIFICATION Spec
CONSTANTS
  r1 = r1
  r2 = r2
  r3 = r3
  s1 = s1
  s2 = s2
  Req <- ThreeReq
  Session = {s1, s2}
  Kind <- MixedKind
  MaxNewTokens <- MixedMax
  SessionOf <- SharedSession
  Prompt <- MixedPrompt
  ChunkTokens = 2
  MaxBurst = 1
  SilentTokens = FALSE
  ExecutorMayRaise = FALSE
  UsesPagedKV = FALSE
  SupportsPrefixCache = FALSE
  NumPages = 1
  PageSize = 2
  MaxEntries = 1
  Readers <- NoReaders
CHECK_DEADLOCK FALSE
INVARIANT
  StreamComplete
