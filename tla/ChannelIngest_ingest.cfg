CONSTANTS
  Deliveries = {d1, d2}
  Modes = {"auto", "approve", "off"}
  NumInbounds = 2
  NumConvs = 2
  MaxPushes = 3
  MaxTroubles = 1
SPECIFICATION Spec
SYMMETRY Symmetry
INVARIANTS TypeOK RedeliveryIsHarmless PollPassesNone AnswersAreRelayed SomebodyIsCalled
CHECK_DEADLOCK FALSE
