SPECIFICATION AccountsSpec
CONSTANTS
  Accounts = {ann, ben}
  Orgs = {o1, o2}
  Requests = {p1, p2}
  Nobody = Nobody
  Callers = {p1, p2}
  Sessions = {s1}
  Links = {l1, l2}
  Addresses = {home, work}
  NoLink = NoLink
  MaxHash = 2
  Spenders = {p1, p2}
  Limits <- LimitOf
  Most <- LimitOf
  AiLimits = {1, 2}
  LastMonth = 2
SYMMETRY Symmetry
CHECK_DEADLOCK FALSE
INVARIANTS
  AccountsTypeOK
  AdminRemains
  InvitationsAreSingle
  KeysFollowAccount
  MonthWithinLimit
  OvershootIsBounded
PROPERTIES
  LastAppointmentStays
  OwnedAccountsStay
  RedeemedOnce
