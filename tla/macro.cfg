CONSTANTS
  FileSets <- MCFileSets
  Global <- Here
  Calls <- MCCalls
  IdentChars = {"p", "q", "x", "y", "z"}
  NoMacro = NoMacro
  ArgcMax = 2
  CodeMax = 6
  MaxOpen = 3
SPECIFICATION Spec
CHECK_DEADLOCK FALSE
INVARIANTS CallsMeanLastDefinition ExpansionsAreSubstitutions OverflowNeedsRepetition
PROPERTIES LoadEnds
