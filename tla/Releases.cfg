SPECIFICATION MCSpec
CONSTANTS
  Request = {r1, r2, r3}
  Artifact = {a1}
  Kind = {"minor", "patch", "other"}
  MaxPart = 1
  MaxTags = 3
SYMMETRY Symmetry
CHECK_DEADLOCK FALSE
INVARIANTS TypeOK RowHasTag VersionWonOnce AckedIsPublished FsckComplete
INVARIANTS ScanIsLatest BumpIsNext
PROPERTIES TagsImmutable ChosenAboveAcked ImplementsLedger
