SPECIFICATION Spec
CONSTANTS
  NULL = NULL
  s1 = s1
  p1 = p1
  p2 = p2
  t1 = t1
  b1 = b1
  m1 = m1
  m2 = m2
  a1 = a1
  a2 = a2
  Sessions <- MCSessions
  Projects <- MCProjects
  Items <- MCItems
  Messages <- MCMessages
  Turns <- MCOneTurn
  KindOf <- MCKindOf
  TargetOf <- MCTargetOf
  RouterDefault <- MCRouterDefault
  BoundaryActions <- CompleteOrBlocked
  Forms <- WholeOrUnprovenForm
  Namings <- NamesAnything
  ServiceActions <- DispatchAndComplete
  AcceptanceModes <- Inherit
  MaxFaults = 1
  MaxHumanSteps = 0
  MaxCrashes = 1
SYMMETRY MessageSymmetry
INVARIANTS
  TypeOK
  PendingIsQueuedWork
  WritesOwnOrMatchedRows
PROPERTIES
  ImplementsPendingWork
  PendingEndsRecorded
CHECK_DEADLOCK FALSE
