SPECIFICATION Spec
CONSTANTS
  Dialects <- MCDialects
  MaxFragments = 3
INVARIANTS
  CallsAreReadAsMeant
  NoCallDisappears
  WrittenBackAsRead
PROPERTY
  ReadingEnds
