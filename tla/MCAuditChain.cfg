CONSTANTS
  Callers = {c1, c2}
  Pieces = {"x", "{}", "|", "null"}
  Entries <- MCEntries
  MaxId = 3
  MaxEdits = 2
SPECIFICATION Spec
INVARIANTS TypeOK BreaksOnlyWhereReadFailed AcceptedRowsWereLogged
PROPERTY VerdictStands
SYMMETRY Perms
CHECK_DEADLOCK FALSE
