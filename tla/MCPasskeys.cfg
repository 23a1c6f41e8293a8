CONSTANTS
  Ceremonies = {c1, c2, c3}
  Requests = {r1, r2}
  Registered = {0, 2}
SPECIFICATION Spec
SYMMETRY Symmetry
INVARIANTS TypeOK AssertionSignsInOnce NeverLockedOut
PROPERTIES NoFalseRollback
CHECK_DEADLOCK FALSE
