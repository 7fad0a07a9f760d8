SPECIFICATION ServingSpec
CONSTANTS
  Responses = {r1, r2}
  Requests = {p1, p2}
  Positions = {seat}
  Drafts = {d1}
  Nobody = Nobody
  Free = Free
  MaxSeats = 2
  Limits = {1, Free}
  Capacities = {2, Free}
  FirstCap <- TwoSeats
  Notifies = FALSE
  MaxChanges = 1
  t1 = t1  t2 = t2  s1 = s1  s2 = s2  sys = sys  b1 = b1
  System = sys
  Mails = {1}
  TenantOf <- OneTenant
  LaneOf <- OneTenant
  AboutOf <- OneAbout
  Subjects = {s1}
  Tenants = {t1}
  Workers = {p1, p2}
  Editors = {e1}
  Blocks = {b1, b2}
  FirstSmtp <- TenantReady
  MaxAttempts = 2
  RunLanes = 2
  LaneBatch = 2
  MaxDisturbances = 4
SYMMETRY Symmetry
INVARIANTS
  TypeOK
  WithinBounds
  OneAnswerPerDraft
  MailTypeOK
  ConversationIsWorkable
  NoUnexplainedDuplicate
  SuspectNeverSent
  OneConversationPerRow
PROPERTIES
  TrashIsNotEdited
  AdmitsWithinBounds
  NothingLeavesAfterErasure
  KeepsPromise
CHECK_DEADLOCK FALSE
