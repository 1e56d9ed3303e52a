SPECIFICATION Spec
CONSTANTS
  NULL = NULL
  EMPTY = EMPTY
  TORN = TORN
  notice = notice
  done = done
  escalation = escalation
  chat = chat
  link = link
  user = user
  pm = pm
  account = account
  session = session
  j1 = j1
  j2 = j2
  j3 = j3
  Refs <- MCRefs
  Reference <- MCReference
  GovernanceEnv <- Unset
  MainSessions <- None
  ChannelTargets <- None
  Requests <- Unreachable
  Files <- WithAndWithoutWorkflows
  Jobs <- MCTwoJobs
  MaxRunning = 2
  MaxFaults = 0
INVARIANTS
  CallLeavesRecord
CHECK_DEADLOCK FALSE
