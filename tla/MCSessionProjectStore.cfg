SPECIFICATION FairSpec
CONSTANTS
  NULL = NULL
  TORN = TORN
  k1 = k1
  k2 = k2
  c1 = c1
  c2 = c2
  p1 = p1
  d1 = d1
  Keys <- MCKeys
  Calls <- MCCalls
  Values <- MCValues
  Requests <- MCRequests
  Ttl = 1
  MaxNow = 2
  MaxReadFaults = 1
  MaxWriteFaults = 2
  MaxCrashes = 1
INVARIANTS
  TypeOK
  TmpBelongsToWriter
PROPERTIES
  ImplementsAtomicStore
  SessionsLeaveOnlyByExpiryOrClear
  EveryCallSettles
CHECK_DEADLOCK FALSE
