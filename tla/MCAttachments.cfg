SPECIFICATION FairSpec
CONSTANTS
  Files = {f1}
  Answers = {a1}
  Drafts = {d1}
  Requests = {p1}
  Sweepers = {w}
  Erasers = {e}
  Nobody = Nobody
  MaxFaults = 2
INVARIANTS
  TypeOK
  OwnsOnlyNamed
  NamesResolve
  OwnedHaveBytes
  NoOrphans
PROPERTIES
  HandedOverOnly
  UnclaimedIsDeleted
CHECK_DEADLOCK FALSE
