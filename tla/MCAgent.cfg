SPECIFICATION Spec
CONSTANTS
  c1 = c1
  c2 = c2
  Calls = {c1, c2}
  CallSeqs <- MCCallSeqs
  BadCalls = {c2}
  MaxLengths = {2, 3}
  VerboseModes = {TRUE, FALSE}
  Names = {"s"}
  Paths = {"p"}
  DefaultPaths = {"p"}
  InitialFiles <- MCFiles
  MaxMessages = 4
  MaxQueued = 1
  MaxRounds = 2
CONSTRAINT
  MCFewWithApprovals
INVARIANTS
  TypeOK
  RequestsPaired
  ContextInv
  RequestKept
  OnlyTheTurnExceedsTheLimit
  AnsweredOnce
  ApprovalUsedOnce
