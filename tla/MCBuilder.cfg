SPECIFICATION BuilderSpec
CONSTANTS
  Tabs = {t1, t2}
  Texts = {x, y}
  NewText = x
  MaxRevision = 4
  TypesInFlight = FALSE
CHECK_DEADLOCK FALSE
INVARIANTS
  CleanIsStored
