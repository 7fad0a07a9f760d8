SPECIFICATION MailFairSpec
CONSTANTS
  t1 = t1  t2 = t2  s1 = s1  s2 = s2  sys = sys  b1 = b1
  System = sys
  Mails = {1, 2}
  TenantOf <- OneOfEachTenant
  LaneOf <- OneOfEachTenant
  AboutOf <- Unrelated
  Subjects = {s1}
  Tenants = {t1, t2}
  Workers = {w1}
  Editors = {}
  Blocks = {b1}
  FirstSmtp <- OnlySecond
  MaxAttempts = 1
  RunLanes = 1
  LaneBatch = 1
  MaxDisturbances = 0
PROPERTIES
  EveryMailSettles
CHECK_DEADLOCK FALSE
