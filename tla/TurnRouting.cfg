SPECIFICATION Spec
INVARIANTS
  TypeOK
  DenyAlwaysHandsOff
  BlockedTextIsNeverUsed
  NobodyIsLeftSilent
  QueuedIsNotPagedAgain
CHECK_DEADLOCK FALSE
