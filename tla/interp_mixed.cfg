SPECIFICATION Spec
CONSTANTS
  InitCount = 9
  ArgMax = 2
  Words <- MCWords
  Strings <- MCStrings
  Root <- MCRoot
  Macros <- MCMacros
  GarbageArgs <- MCGarbage
  Codes <- MixedCodes
  MaxRuns = 3
CHECK_DEADLOCK FALSE
INVARIANT PoolIsSound
PROPERTIES LeaksOnlyInFailedParse AcceptanceIgnoresHistory EveryRunEnds
