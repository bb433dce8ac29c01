CONSTANTS
  Codes <- MCCodes
  Default <- MCDefault
  TokenSize = 6
  HandleSize = 2
  StackGap = 2
  OutUnit = 6
  Details = {1, 4, 5, 9}
SPECIFICATION Spec
CHECK_DEADLOCK FALSE
INVARIANT SizesAreTrue
