CONSTANTS
  Commands <- Everything
  MaxJobs = 2
SPECIFICATION Spec
INVARIANT TypeOK
PROPERTIES ImplementsSlot HardwareInOrder CacheCatchesUp StopAnswered
CHECK_DEADLOCK FALSE
