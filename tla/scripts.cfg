CONSTANTS
  Full = 2
  MaxFaults = 1
  Cams = {"high", "wrist"}
  Horizon = 2
  MaxSteps = 4
  Recordings <- AllRecordings
  Scripts = {"openpi", "lerobot", "studio"}
  LastFrame = 2
SPECIFICATION Spec
INVARIANTS ChunkInStep FollowsRecording
PROPERTIES HoldsWhatItSaw InterruptEnds
CHECK_DEADLOCK FALSE
