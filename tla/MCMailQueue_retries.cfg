SPECIFICATION MailSpec
CONSTANTS
  t1 = t1  t2 = t2  s1 = s1  s2 = s2  sys = sys  b1 = b1
  System = sys
  Mails = {1}
  TenantOf <- OneTenant
  LaneOf <- OneTenant
  AboutOf <- OneAbout
  Subjects = {s1}
  Tenants = {t1}
  Workers = {w1}
  Editors = {e1, e2}
  Blocks = {b1}
  FirstSmtp <- TenantReady
  MaxAttempts = 1
  RunLanes = 1
  LaneBatch = 1
  MaxDisturbances = 2
PROPERTIES
  RequeuedIsRetryable
CHECK_DEADLOCK FALSE
