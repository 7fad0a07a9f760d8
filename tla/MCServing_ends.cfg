SPECIFICATION ServingFairSpec
CONSTANTS
  Responses = {r1, r2}
  Requests = {p1, p2}
  Positions = {seat}
  Drafts = {d1}
  Nobody = Nobody
  Free = Free
  MaxSeats = 1
  Limits = {Free}
  Capacities = {1}
  FirstCap <- OneSeat
  Notifies = TRUE
  MaxChanges = 0
  t1 = t1  t2 = t2  s1 = s1  s2 = s2  sys = sys  b1 = b1
  System = sys
  Mails = {1, 2}
  TenantOf <- TwoOfOneTenant
  LaneOf <- TenantAndSystem
  AboutOf <- TenantAndSystemAbout
  Subjects = {s1}
  Tenants = {t1}
  Workers = {w1}
  Editors = {e1}
  Blocks = {b1}
  FirstSmtp <- AllReady
  MaxAttempts = 2
  RunLanes = 2
  LaneBatch = 1
  MaxDisturbances = 1
PROPERTIES
  EveryRequestEnds
  EveryMailSettles
CHECK_DEADLOCK FALSE
