SPECIFICATION FairSession
CONSTANTS
  c1 = c1
  c2 = c2
  Calls = {c1, c2}
  CallSeqs <- MCCallSeqs
  BadCalls = {}
  MaxLengths = {2}
  VerboseModes = {TRUE, FALSE}
  Names = {}
  Paths = {}
  DefaultPaths = {}
  InitialFiles = {}
  MaxMessages = 3
  MaxQueued = 2
  MaxRounds = 1
  Typed <- MCTyped
  Decisions = {TRUE, FALSE}
  SlowUser = TRUE
  SlowControl = TRUE
  Reconfigures = TRUE
INVARIANTS
  ReplyAnswersRequestUntilAstray
  PromptMeansIdle
  ApprovalIsForThisCallUntilAstray
PROPERTIES
  RequestIsAnswered
  EveryMessageAnswered
  ShutdownEndsAgent
  RequestsAreShown
CHECK_DEADLOCK FALSE
