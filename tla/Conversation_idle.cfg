SPECIFICATION FairSpec
CONSTANTS
  Sessions = {s1}
  Agents = {a1}
  NoAgent = NoAgent
  Requests = {r1, r2, r3}
  Kinds = {"message", "accept", "handBack"}
  NumConvs = 2
  MaxConcurrent = 2
  PinLimit = 1
  Batch = 1
  MaxCrashes = 1
PROPERTIES
  NoThreadForgotten
CHECK_DEADLOCK FALSE
