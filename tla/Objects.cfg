SPECIFICATION MCSpec
CONSTANTS
  Requests = {11, 12, 13}
  Contents = {1, 2}
  Matches = {1}
  Histories <- MCHistories
  Clients = {1, 2}
  Parts = {1, 2}
  Bytes = {1, 2}
  UploadFaults = 2
  MaxStops = 1
  MaxUploads = 3
  Keys = {10, 21, 22, 30}
  Stamps = {1, 2}
  PrefixKey = 10
  BatchSize = 2
  PageSizes = {1, 2}
  MaxWrites = 2
  RetireAttempts = 2
  MaxSends = 3
  RetireFaults = 1
  RetireCrashes = 1
  MaxHolds = 1
  c1 = c1
  c2 = c2
  ClientIDs = {c1, c2}
  Unset = Unset
  EnsureAttempts = 3
  MaxRounds = 1
  CreateFaults = 2
  MaxCrashes = 1
INVARIANTS HistoryInv UploadInv WalkComplete OneDataSet LedgerInv
PROPERTIES ConditionsHeld OnlyNamedGoes DataSetSteps PartsSettle
CHECK_DEADLOCK FALSE
