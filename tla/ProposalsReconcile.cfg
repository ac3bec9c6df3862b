SPECIFICATION InConflictSpec
CONSTANTS
  WriteReq = {w1, w2, w3}
  ProposeReq = {p1, p2}
  MergeReq = {m1, m2, m3}
  Branch = {b1, b2}
  File = {f}
  Content = {blank, x, y, xy}
  Blank = blank
  Both = xy
  None = none
SYMMETRY CallSymmetry
CHECK_DEADLOCK FALSE
INVARIANT ReconcileThenMerge
