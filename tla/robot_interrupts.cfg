CONSTANTS
  Commands <- Interrupted
  MaxCmds = 4
  SlowConnect = TRUE
  Reconnect = FALSE
SPECIFICATION Spec
PROPERTIES InterruptLeavesQuiet BusyClears RequestAnswered
CHECK_DEADLOCK FALSE
