CONSTANTS
  Programs <- AllRules
  StackDepth = 8
  StackGap = 2
SPECIFICATION Spec
CHECK_DEADLOCK FALSE
INVARIANTS StackMirrorsFrames CleanExecutionLeavesNothing
INVARIANTS HandlersGetNearestObjectUnnegated FailureIsFinalUnnegated
PROPERTIES FailureStopsUnnegated Terminates ComputesMeaning
