SPECIFICATION Spec
CONSTANTS
  Sessions = {s1}
  Agents = {a1}
  NoAgent = NoAgent
  Requests = {r1, r2, r3}
  Kinds = {"message", "escalate", "customerEnd", "rate", "accept", "assign", "issueAssign", "handBack", "end", "reply", "pin", "unpin"}
  NumConvs = 1
  MaxConcurrent = 2
  PinLimit = 1
  Batch = 2
  MaxCrashes = 1
SYMMETRY Symmetry
INVARIANTS
  TypeOK
  
CHECK_DEADLOCK FALSE
