SPECIFICATION MCSpec
SYMMETRY Symmetric
CONSTANTS
  Clients = {c1, c2}
  Runners = {r1}
  MaxContents = 1
  MaxVersions = 2
  MaxEvictions = 2
  MaxPresence = 2
  MaxFaults = 1
  MaxCrashes = 1
  LRU = FALSE
  Keys = {2}
  Parts = {1}
  Writers = {1, 2}
  PartSizes = {1, 2}
  MaxBytes = 4
  Bounds <- MCBounds
  Updates = {1, 2}
  Envs = {{}, {"private_key"}, {"max_connections"}}
  MaxResets = 1
  SettingsFaults = 1
INVARIANTS BytesKept CacheInv FilesInv SettingsInv
PROPERTIES CommitOutcome
CHECK_DEADLOCK FALSE
