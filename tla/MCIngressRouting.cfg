SPECIFICATION Spec
CONSTANTS
  NULL = NULL
  m1 = m1
  m2 = m2
  main = main
  p1 = p1
  p2 = p2
  gone = gone
  review = review
  note = note
  ping = ping
  Messages <- MCMessages
  Sessions <- MCSessions
  Projects <- MCProjects
  Registered <- MCRegistered
  Actions <- MCActions
  Inbox <- MCInbox
  Base <- MCBase
  Override <- MCOverride
  Handlers <- MCHandlers
  ServiceResults <- MCServiceResults
  MaxSwitches = 1
  MaxFaults = 1
SYMMETRY Symmetry
INVARIANTS
  TypeOK
  OneProjectPerMessage
  EscalationsAreBacked
  HandledSignalsAreKept
  TornSnapshotIsNoticed
PROPERTIES
  RoutingKeepsSession
  WorkflowEndsWithBinding
CHECK_DEADLOCK FALSE
