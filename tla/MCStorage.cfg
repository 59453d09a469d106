SPECIFICATION Spec
CONSTANTS
  Files <- MCFiles
  BackupName <- MCBackupName
  Keys = {1, 2}
  Limits = {1, 2}
  MaxTime = 1
  MaxCalls = 5
  MaxSaves = 1
INVARIANTS
  NoVersionIsLost
  NotesAreKept
  NewestNotesFirst
CHECK_DEADLOCK FALSE
