SPECIFICATION Spec
CONSTANTS
  InitCount = 128
  ArgMax = 4
  Words <- MCWords
  Strings <- MCStrings
  Alphabet <- MCAlphabet
  Rules <- MCRules
CHECK_DEADLOCK FALSE
INVARIANTS ParsesBack TreeSpellsCode CrashNeedsCallAtEnd
