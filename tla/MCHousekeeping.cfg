SPECIFICATION MCSpec
CONSTANTS
  c1 = c1
  c2 = c2
  Clients <- TwoClients
  SettingsPlans <- MCSettingsPlans
  Wide = 256
  Second = 4
  MinPollInterval = 2
  MaxPollInterval = 20
  DefaultPollInterval = 5
  MaxBatchWindow = 20
  Files <- SomeFiles
  Dirs <- OneDir
  Above <- SomeAbove
  TTL = 2
  MaxEntries = 2
  MaxEvents = 2
  MaxTime = 3
  MaxFiles = 3
  MaxBytes = 3
  Sizes = {1, 2, 4}
  LogPlans <- MCLogPlans
INVARIANTS SettingsInv CacheInv LogFilesInv
PROPERTIES WrongNoLongerThanTTL
CHECK_DEADLOCK FALSE
