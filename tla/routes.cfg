CONSTANTS
  Names = {"home", "grasp"}
  Poses = {0, 1}
  RouteNames = {"pick"}
  TheRoute = "pick"
  MaxInputs = 3
  MaxFaults = 1
  MaxRuns = 2
  Files <- AllFiles
  Stores <- StoredFiles
  Typed <- TypedRoutes
SPECIFICATION Spec
INVARIANTS NothingUnsaved FollowsRoute
PROPERTIES EscEnds
CHECK_DEADLOCK FALSE
