SPECIFICATION Spec
CONSTANTS
  WriteReq = {w1, w2}
  ProposeReq = {p1, p2}
  MergeReq = {m1, m2}
  Branch = {b1, b2}
  File = {f}
  Content = {blank, x, y}
  Blank = blank
  None = none
CHECK_DEADLOCK FALSE
SYMMETRY CallSymmetry
INVARIANTS TypeOK MergedIsOnMain SoloWriteKept
PROPERTIES OnlyMergesReachMain RefsStayUnderClone NoSilentOverwrite OnlyDeletionForgets MergedSettles ImplementsReview
