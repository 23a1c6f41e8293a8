SPECIFICATION Spec
CONSTANTS
  f1 = f1
  f2 = f2
  l1 = l1
  name = name
  timeout = timeout
  old = old
  new = new
  Forms <- TwoForms
  Lists <- OneList
  Keys <- TwoKeys
  Values <- TwoValues
  Default <- AllOld
  MaxSends = 2
  MaxStops = 1
INVARIANTS TypeOK EffectsAccountedFor TrailReplays
PROPERTIES OverwritesAreOfStaleForms RequestsSettle
CHECK_DEADLOCK FALSE
