SPECIFICATION Spec
CONSTANTS
  NULL = NULL
  EMPTY = EMPTY
  TORN = TORN
  notice = notice
  done = done
  escalation = escalation
  chat = chat
  link = link
  user = user
  pm = pm
  account = account
  session = session
  j1 = j1
  j2 = j2
  j3 = j3
  Refs <- MCRefs
  Reference <- MCReference
  GovernanceEnv <- Unset
  MainSessions <- UserSession
  ChannelTargets <- UserChannel
  Requests <- MCRequests
  Files <- WithAndWithoutGovernance
  Jobs <- MCJobs
  MaxRunning = 2
  MaxFaults = 1
SYMMETRY Symmetry
CONSTRAINT OneOutbox
INVARIANTS
  TypeOK
  AuditIsTrue
  SentIsRecorded
  PendingIsUnfinished
  RepeatsAreCalls
PROPERTIES
  RecordsStay
CHECK_DEADLOCK FALSE
