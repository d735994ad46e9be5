CONSTANTS
  Heights <- UpTo7
  Requests <- UpTo4
  Radii <- UpTo3
  Totals <- UpTo5
  ChunkSizes <- Sizes
  Consumers <- OneToThree
SPECIFICATION WorkloadSpec
INVARIANTS
  PlanPartitions
  
  AcceptsOwnPlan
  SlidingIsWindow
  
CHECK_DEADLOCK FALSE
