CONSTANTS
  Usernames = {"root", "admin"}
  Ceremonies = {c1, c2, c3}
  Requests = {r1, r2}
SPECIFICATION Spec
INVARIANTS TypeOK ShownKitWorks SessionsAreOfOwners
PROPERTY ImplementsFirstOwner
CHECK_DEADLOCK FALSE
