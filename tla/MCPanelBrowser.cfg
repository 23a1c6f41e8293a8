CONSTANTS
  Tabs = {t1, t2}
  Sessions = {s1, s2}
  Opened <- TwoPages
  Faulty <- NoSystemd
  MaxFaults = 1
SPECIFICATION Spec
INVARIANTS TypeOK ShortRedirects SessionsAccountedFor
PROPERTIES LandsWhereSent NavigationSettles
CHECK_DEADLOCK FALSE
