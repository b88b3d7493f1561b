SPECIFICATION Spec
CONSTANTS
  r1 = r1
  r2 = r2
  root = root
  tech = tech
  gone = gone
  late = late
  nobody = nobody
  s1 = s1
  s2 = s2
  auditor = auditor
  admin = admin
  Null = Null
  Requests = {r1}
  Users = {root, tech, gone, late}
  Active0 = {root, tech, late}
  Superusers = {root}
  Emails = {root, tech, gone, late, nobody}
  EmailOf <- MCEmailOf
  Subs = {s1, s2}
  Credentials0 <- MCCredentials0
  Roles = {auditor, admin}
  Roles0 <- MCRoles0
  Grants <- MCGrants
CHECK_DEADLOCK FALSE
INVARIANT AssignedRolesCount
