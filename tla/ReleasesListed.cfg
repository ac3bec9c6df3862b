SPECIFICATION MCSpec
CONSTANTS
  Request = {r1, r2}
  Artifact = {a1}
  Kind = {"minor", "patch"}
  MaxPart = 0
  MaxTags = 0
SYMMETRY Symmetry
CHECK_DEADLOCK FALSE
INVARIANT ListedIsLatest
