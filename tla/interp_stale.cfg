SPECIFICATION Spec
CONSTANTS
  InitCount = 9
  ArgMax = 2
  Words <- MCWords
  Strings <- MCStrings
  Root <- MCRoot
  Macros <- MCMacros
  GarbageArgs <- MCGarbage
  Codes <- BareCodes
  MaxRuns = 2
CHECK_DEADLOCK FALSE
PROPERTY AcceptanceIgnoresHistory
