CONSTANTS
  Characters <- MCCharacters
  FuzzyPointMax = 2
  DirDepthMax = 4
  FileNull = FileNull
  InitialFs <- MCInitialFs
  Attributes <- MCAttributes
  MaxFsChanges = 1
  NoValue = NoValue
  Rules <- MCRules
  Bases <- MCBases
  Patterns <- MCPatterns
  Unwritten <- MCUnwritten
  MaxCalls = 2
SPECIFICATION Spec
INVARIANTS AnswersOfOneMoment RightsAreOfFiles SearchesFindTheirMeaning ExistsMeansFoundAlone
