CONSTANTS
  Commands <- MoveStop
  MaxCmds = 3
  SlowConnect = FALSE
  Reconnect = FALSE
SPECIFICATION Spec
INVARIANT AliveMeansBusy
CHECK_DEADLOCK FALSE
