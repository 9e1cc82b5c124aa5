CONSTANTS
  Commands <- Everything
  MaxJobs = 2
SPECIFICATION Spec
INVARIANTS TypeOK
PROPERTIES ImplementsSlot PollingResumes StopAnswered BusyEnds
CHECK_DEADLOCK FALSE
