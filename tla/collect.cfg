CONSTANTS
  QueueSize = 1
  MaxKept = 2
  SaveFailure = FALSE
  MaxSaved = 4
  Devices = {"keyboard", "gello"}
  NumEpisodes = 2
  MaxShots = 2
  MaxNow = 4
  MaxFaults = 1
SPECIFICATION Spec
INVARIANTS  ActionsFit NothingLost AnnotationsMatch
PROPERTIES ImplementsEpisodes InterruptEnds
CHECK_DEADLOCK FALSE
