SPECIFICATION MembersSpec
CONSTANTS
  Accounts = {ann, ben}
  Orgs = {o1, o2}
  Requests = {p1, p2}
  Nobody = Nobody
CHECK_DEADLOCK FALSE
PROPERTIES
  MembersStay
