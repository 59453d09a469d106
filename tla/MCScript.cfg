SPECIFICATION FairScript
CONSTANTS
  c1 = c1
  c2 = c2
  Calls = {c1, c2}
  CallSeqs <- MCCallSeqs
  BadCalls = {}
  MaxLengths = {2}
  VerboseModes = {TRUE, FALSE}
  Names = {}
  Paths = {}
  DefaultPaths = {}
  InitialFiles = {}
  MaxMessages = 4
  MaxQueued = 4
  MaxRounds = 2
  Modes = {"batch", "todo", "lines", "tasks"}
  Lines <- MCLines
  MaxLines = 4
INVARIANTS
  ReplyUnderItsLine
  TaskIsAlone
PROPERTY
  ScriptEnds
CHECK_DEADLOCK FALSE
