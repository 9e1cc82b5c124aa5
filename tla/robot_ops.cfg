CONSTANTS
  Commands <- Operations
  MaxCmds = 3
  SlowConnect = FALSE
  Reconnect = FALSE
SPECIFICATION Spec
INVARIANTS TypeOK OneBlockingOp
PROPERTIES NoSetDuringBlocking IdleReplyCarriesOutcome ImplementsSlot RequestAnswered ShutdownReleases
CHECK_DEADLOCK FALSE
