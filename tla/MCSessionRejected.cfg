SPECIFICATION FairSession
CONSTANTS
  c1 = c1
  c2 = c2
  Calls = {c1, c2}
  CallSeqs <- MCCallSeqs
  BadCalls = {}
  MaxLengths = {2}
  VerboseModes = {TRUE, FALSE}
  Names = {}
  Paths = {}
  DefaultPaths = {}
  InitialFiles = {}
  MaxMessages = 4
  MaxQueued = 2
  MaxRounds = 2
  Typed <- MCTyped
  Decisions = {TRUE, FALSE}
  SlowUser = FALSE
  SlowControl = FALSE
  Reconfigures = FALSE
INVARIANT
  ReplyAnswersRequest
CHECK_DEADLOCK FALSE
