SPECIFICATION Spec
CONSTANTS
  Server = {s1}
  Creator = {c1, c2}
  Tool = {b1}
  Project = {p1}
  Followed = p1
  Migrations = 1
  MaxFaults = 1
  Caller = {u1}
  Version = {1}
  Change = {x1}
  Topic = {t1}
  Proposal = {m1}
  MaxRestores = 1
CHECK_DEADLOCK FALSE
INVARIANTS TypeOK RowsBehindGit CreatedIsUsable ToldIsRestored OpenHasTables
PROPERTIES ServerComesUp
