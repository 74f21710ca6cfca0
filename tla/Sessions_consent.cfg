SPECIFICATION Spec
CONSTANTS
  Requests = {r1, r2, r3}
  Calls = {"grant", "decline", "language", "lookup", "identify", "touch", "tag", "link", "contact", "redact", "erase", "turn"}
  Customers = {k1}
  Nobody = Nobody
  MaxNotices = 2
INVARIANTS
  TypeOK
  
  WithdrawalIsHonoured

  
CHECK_DEADLOCK FALSE
