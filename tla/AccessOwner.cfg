SPECIFICATION Spec
CONSTANTS
  Org = {o1, o2}
  User = {u1, u2}
  Slug = {s1}
  NewOrg = o1
  NewOwner = u1
  OldOrg = o2
  OldOwner = u2
  Request = {r1}
  Limit = 1
  MaxCommands = 2
CONSTRAINT FewRequests
CHECK_DEADLOCK FALSE
INVARIANT ManagersMaintain
