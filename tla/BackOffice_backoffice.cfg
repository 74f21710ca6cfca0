SPECIFICATION MCSpec
CONSTANTS
  Callers = {c1, c2}
  Answers = {a1, a2}
  Cap = 2
  Shops = {"s1", "s2"}
  Orders <- OneOrder
  Lookback = 1
  MaxTime = 3
  MaxTokens = 4
  Pairs = {1, 2}
  Drafts = {d1, d2}
  MaxAttempts = 2
  Changes = {p1, p2, p3}
  MaxWork = 3
SYMMETRY Symmetry
INVARIANTS
  TypeOK
  OffStaysOff
  NothingHidesTheQuestion
  
  
  DecisionsStand
  
CHECK_DEADLOCK FALSE
