SPECIFICATION Spec
CONSTANTS
  Sessions = {s1}
  Agents = {a1}
  NoAgent = NoAgent
  Requests = {r1, r2, r3, r4}
  Kinds = {"message", "escalate", "customerEnd", "rate", "accept", "assign", "handBack", "end", "reply"}
  NumConvs = 1
  MaxConcurrent = 2
  PinLimit = 1
  Batch = 2
  MaxCrashes = 0
SYMMETRY Symmetry
INVARIANTS
  EndedHoldsNoAssignment
CHECK_DEADLOCK FALSE
