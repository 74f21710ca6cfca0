SPECIFICATION Spec
CONSTANTS
  Users = {m1}
  Managers = {m1}
  Nobody = Nobody
  Priorities = {normal}
  Normal = normal
  Convs = {c1, c2, c3}
  NoConv = NoConv
  MaxReopens = 1
  Requests = {r1, r2}
  Worked = {c1}
SYMMETRY Symmetry
INVARIANTS
  TypeOK
  
  NumbersAreDense
PROPERTIES
  GivesUpOnlyWhenCrowded
  
CHECK_DEADLOCK FALSE
