SPECIFICATION FairSpec
CONSTANTS
  WriteReq = {w1, w2}
  ProposeReq = {p1}
  MergeReq = {m1, m2}
  Branch = {b1}
  File = {f}
  Content = {blank, x, y}
  Blank = blank
  None = none
CHECK_DEADLOCK FALSE
PROPERTY CallsEnd
