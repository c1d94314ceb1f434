SPECIFICATION FairStoreSpec
CONSTANTS
  Hash = {h1, h2, h3}
  User = {u1, u2}
  NoHash = NoHash
  MaxSessionsPerUser = 2
  SessionTTL = 2
  SweepBatch = 2
  CreateLag = 1
  MaxTime = 4
INVARIANTS StoreTypeOK IndexAgrees CapHolds
PROPERTIES LiveSessionsStay ExpiredIsFreed
CHECK_DEADLOCK FALSE
