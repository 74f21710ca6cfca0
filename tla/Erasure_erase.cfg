SPECIFICATION Spec
CONSTANTS
  Rows = {x1, x2}
  Orders = {o1}
  None = None
  Requests = {r1, r2}
  MaxRestarts = 1
SYMMETRY Symmetry
INVARIANTS
  TypeOK
  RememberedBeforeScrubbed
  
PROPERTIES
  OnlyRacesRevive
CHECK_DEADLOCK FALSE
