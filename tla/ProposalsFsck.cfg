SPECIFICATION FsckSpec
CONSTANTS
  WriteReq = {w1}
  ProposeReq = {p1}
  MergeReq = {m1}
  Branch = {b1}
  File = {f}
  Content = {blank, x, y}
  Blank = blank
  None = none
CHECK_DEADLOCK FALSE
PROPERTY FsckRebuildsRows
