SPECIFICATION Spec
CONSTANTS
  NULL = NULL
  s1 = s1
  p1 = p1
  p2 = p2
  t1 = t1
  b1 = b1
  m1 = m1
  m2 = m2
  a1 = a1
  a2 = a2
  Sessions <- MCSessions
  Projects <- MCProjects
  Items <- MCItems
  Messages <- MCOneMessage
  Turns <- MCOneTurn
  KindOf <- MCKindOf
  TargetOf <- MCTargetOf
  RouterDefault <- MCRouterDefault
  BoundaryActions <- Complete
  Forms <- WholeForm
  Namings <- NamesNothing
  ServiceActions <- DispatchAndComplete
  AcceptanceModes <- Inherit
  MaxFaults = 0
  MaxHumanSteps = 1
  MaxCrashes = 0
PROPERTIES
  BindingChangesOnlyByHuman
CHECK_DEADLOCK FALSE
