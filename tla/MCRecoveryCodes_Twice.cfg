CONSTANTS
  Codes = {a, b, c, x}
  Issued = {a, b, c}
  Requests = {r1, r2}
  MaxLogins = 2
SPECIFICATION Spec
INVARIANT CodeSignsInOnce
CHECK_DEADLOCK FALSE
