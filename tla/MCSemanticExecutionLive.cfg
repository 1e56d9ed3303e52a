SPECIFICATION FairSpec
CONSTANTS
  NULL = NULL
  s1 = s1
  p1 = p1
  p2 = p2
  t1 = t1
  b1 = b1
  m1 = m1
  m2 = m2
  a1 = a1
  a2 = a2
  Sessions <- MCSessions
  Projects <- MCOneProject
  Items <- MCOneItem
  Messages <- MCMessages
  Turns <- MCOneTurn
  KindOf <- MCKindOf
  TargetOf <- MCTargetOf
  RouterDefault <- MCRouterDefault
  BoundaryActions <- Complete
  Forms <- OperationForm
  Namings <- NamesNothing
  ServiceActions <- DispatchAndComplete
  AcceptanceModes <- Inherit
  MaxFaults = 1
  MaxHumanSteps = 0
  MaxCrashes = 1
PROPERTIES
  EveryJobEnds
  AcceptedWorkIsRecorded
CHECK_DEADLOCK FALSE
