SPECIFICATION Spec
CONSTANTS
  Sessions = {s1}
  Agents = {a1}
  NoAgent = NoAgent
  Requests = {r1, r2, r3}
  Kinds = {"message", "accept"}
  NumConvs = 1
  MaxConcurrent = 2
  PinLimit = 1
  Batch = 2
  MaxCrashes = 0
PROPERTIES
  BotSilentOnceOwned
CHECK_DEADLOCK FALSE
