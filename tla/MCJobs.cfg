SPECIFICATION JobsFairSpec
CONSTANTS
  Orgs = {1}
  Forms = {2, 3}
  Answers = {4}
  Drafts = {5}
  Above <- Rows
  Term = 1
  DraftTerm = 1
  BatchSize = 1
  MaxTime = 4
  Metrics = {1, 2}
  MaxFaults = 2
CHECK_DEADLOCK FALSE
INVARIANTS
  JobsTypeOK
  NothingSkipped
  OneMailPerSuppression
PROPERTIES
  TermsAreKept
  RunEnds
  BreachIsReported
