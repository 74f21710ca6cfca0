SPECIFICATION FairSpec
CONSTANTS
  Sessions = {s1}
  Agents = {a1}
  NoAgent = NoAgent
  Requests = {r1, r2, r3}
  Kinds = {"message", "escalate", "customerEnd", "accept", "end", "reply"}
  NumConvs = 1
  MaxConcurrent = 2
  PinLimit = 1
  Batch = 1
  MaxCrashes = 0
PROPERTIES
  AskedOnce
  EveryTurnIsHeard
CHECK_DEADLOCK FALSE
