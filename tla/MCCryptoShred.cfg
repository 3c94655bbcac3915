SPECIFICATION FairSpec
CONSTANTS
  Sessions = {s1}
  Rotators = {t1}
  Requests = {q1, q2}
  Shredders <- MCShredders
  Rows <- MCRows
  TableOf <- MCTableOf
  Tables = 2
  BatchSize = 1
  MaxExecutions = 1
  ShredAttempts = 2
  PurgeAttempts = 2
  Deks = {d1, d2}
  Cmk = cmk
  ByokKeys = {kGood, kBad}
  UsableKeys = {kGood}
  None = null
INVARIANTS
  ContentReadable
  OpenSessionsHoldLiveDek
  PurgeAuditMeansClean
PROPERTIES
  KeepsLifecycle
  StartedPurgeEnds
