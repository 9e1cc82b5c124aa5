CONSTANTS
  Modes = {"joint_delta", "ee_delta"}
  GripperTypes = {"none", "robotiq"}
  Low = 0
  High = 2
  Home = 1
  Zero = 0
  Delta = 1
  Margin = 1
  Targets = {0, 85}
  Open = 0
  MaxFaults = 1
SPECIFICATION Spec
INVARIANTS ControllerAgrees LastTargetAccepted
PROPERTIES JumpBounded GripperFollows

