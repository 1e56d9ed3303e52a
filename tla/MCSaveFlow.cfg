SPECIFICATION Spec
CONSTANTS
  NULL = NULL
  p1 = p1
  p2 = p2
  c1 = c1
  c2 = c2
  a1 = a1
  a2 = a2
  main = main
  alias = alias
  Projects <- MCProjects
  Commands <- MCCommands
  Turns <- MCTurns
  Keys <- MCKeys
  Main = main
  Kinds <- AllKinds
  MaxRebinds = 1
  MaxUnregisters = 1
  EMPTY = EMPTY
  TORN = TORN
  MaxFaults = 2
SYMMETRY Symmetry
INVARIANTS
  TypeOK
  HostsHoldOwnDrafts
  SaveIsWhole
PROPERTIES
  DraftsDoNotReturn
  SaveKeepsBinding
  NoDraftVanishes
CHECK_DEADLOCK FALSE
