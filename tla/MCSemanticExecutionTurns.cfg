SPECIFICATION Spec
CONSTANTS
  NULL = NULL
  s1 = s1
  p1 = p1
  p2 = p2
  t1 = t1
  b1 = b1
  m1 = m1
  m2 = m2
  a1 = a1
  a2 = a2
  Sessions <- MCSessions
  Projects <- MCOneProject
  Items <- MCOneItem
  Messages <- MCMessages
  Turns <- MCTurns
  KindOf <- MCKindOf
  TargetOf <- MCTargetOf
  RouterDefault <- MCRouterDefault
  BoundaryActions <- Complete
  Forms <- FormsOfAnyWorth
  Namings <- NamesNothing
  ServiceActions <- EveryAction
  AcceptanceModes <- InheritOrManual
  MaxFaults = 0
  MaxHumanSteps = 1
  MaxCrashes = 0
SYMMETRY JobSymmetry
PROPERTIES
  RegressionOnlyFromStalePlan
  ClosedWithEvidence
CHECK_DEADLOCK FALSE
