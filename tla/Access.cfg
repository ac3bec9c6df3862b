SPECIFICATION Spec
CONSTANTS
  Org = {o1, o2}
  User = {u1, u2}
  Slug = {s1}
  NewOrg = o1
  NewOwner = u1
  OldOrg = o2
  OldOwner = u2
  Request = {r1, r2, r3}
  Limit = 1
  MaxCommands = 2
CONSTRAINT FewRequests
SYMMETRY Symmetry
CHECK_DEADLOCK FALSE
INVARIANTS TypeOK RecallIsolated RememberedIsFound DigestCoversCount UsableIsListed ShownTokenWorks
PROPERTIES RoleWasHeld
