SPECIFICATION FormsSpec
CONSTANTS
  Tabs = {t1, t2}
  Texts = {x, y}
  NewText = x
  MaxRevision = 3
  TypesInFlight = TRUE
  Visitors = {v1}
  Editors = {t1, t2}
  Words = {wa, wb}
  Ungated = Ungated
  Inherit = Inherit
  Addresses = {l1}
  Far = 2
  Questions = 3
  Operators = {"empty", "equals"}
SYMMETRY Symmetry
CHECK_DEADLOCK FALSE
INVARIANTS
  FormsTypeOK
  VersionsStand
  LinksAreTakenBack
  AnswersStand
