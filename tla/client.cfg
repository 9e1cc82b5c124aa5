CONSTANTS
  Clients <- Both
  MaxCalls = 3
  MaxLate = 1
  StreamCap = 1
SPECIFICATION Spec
INVARIANTS LateRepliesStay TrueMeansDone
PROPERTIES StateCatchesUp
CHECK_DEADLOCK FALSE
