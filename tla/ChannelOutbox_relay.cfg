SPECIFICATION FairSpec
CONSTANTS
  Inlines = {i1}
  NumConvs = 2
  NumMsgs = 2
  MaxAttempts = 2
  ScanLimit = 1
  Batch = 1
  MaxCrashes = 1
INVARIANTS
  TypeOK
  
  SentIsProven

  
CHECK_DEADLOCK FALSE
