CONSTANTS
  Clients <- Robot
  MaxCalls = 3
  MaxLate = 1
  StreamCap = 1
SPECIFICATION Spec
INVARIANT SwitchTrueMeansDone
CHECK_DEADLOCK FALSE
