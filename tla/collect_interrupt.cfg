CONSTANTS
  QueueSize = 2
  MaxKept = 1
  SaveFailure = FALSE
  MaxSaved = 2
  Devices = {"keyboard", "spacemouse"}
  NumEpisodes = 1
  MaxShots = 2
  MaxNow = 3
  MaxFaults = 0
SPECIFICATION Spec
INVARIANT FinalizedAtEnd
CHECK_DEADLOCK FALSE
