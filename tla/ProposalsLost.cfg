SPECIFICATION Spec
CONSTANTS
  WriteReq = {w1, w2}
  ProposeReq = {p1}
  MergeReq = {m1}
  Branch = {b1}
  File = {f}
  Content = {blank, x, y}
  Blank = blank
  None = none
SYMMETRY CallSymmetry
CHECK_DEADLOCK FALSE
INVARIANT AckedWriteKept
