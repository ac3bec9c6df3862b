SPECIFICATION MCSpec
CONSTANTS
  Old = {1, 5}
  Hook = {2, 4}
  DrainTime = 2
  PostTime = 3
  HookLimit = 5
  Starter = {s1, s2, s3}
  MaxBundle = 2
CHECK_DEADLOCK FALSE
INVARIANTS TypeOK NoReportVanishes KilledOnlyWhenFull DuplicateHasCause EveryFileTried
INVARIANTS LoadedIsCurrent OfflineIsOneBundle
