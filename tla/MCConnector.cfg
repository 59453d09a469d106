SPECIFICATION FairSpec
CONSTANT
  MaxSent <- MCMaxSent
INVARIANTS
  WakeupInv
  NoSpinning
PROPERTIES
  DeliversInOrder
  MessageEndsReceive
  ShutdownEndsReceive
CHECK_DEADLOCK FALSE
