CONSTANTS
  Programs <- NegativeRules
  StackDepth = 8
  StackGap = 2
SPECIFICATION Spec
CHECK_DEADLOCK FALSE
INVARIANT HandlersGetTheirObject
