SPECIFICATION FairSpec
CONSTANTS
  r1 = r1
  r2 = r2
  u1 = u1
  u2 = u2
  u3 = u3
  Requests = {r1, r2}
  Users = {u1, u2, u3}
  ActiveUsers = {u1, u2}
  Initial = {u1, u2}
  Before = Before
CHECK_DEADLOCK FALSE
INVARIANTS
  TypeOK
  OneRowPerTechnician
  LastListIncluded
PROPERTIES
  AssignmentsAreAtomic
  AssignmentsAnswered
