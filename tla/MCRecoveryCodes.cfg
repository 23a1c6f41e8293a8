CONSTANTS
  Codes = {a, b, c, x}
  Issued = {a, b, c}
  Requests = {r1, r2}
  MaxLogins = 2
SPECIFICATION Spec
INVARIANTS TypeOK CodesNeverRunOut SerialSignsInOnce
PROPERTY ImplementsOneTime
CHECK_DEADLOCK FALSE
