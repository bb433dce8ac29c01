CONSTANTS
  file = file
  process = process
  pair = pair
  single = single
  broken = broken
  Module <- MCModule
  Keyword <- MCKeyword
  Decl <- MCDecl
  Builtins <- MCBuiltins
  Ptr = {s1, s2, s3, s4}
  Null = Null
  FirstCapacity = 2
  MaxInits = 1
  MaxListed = 4
SPECIFICATION Spec
CHECK_DEADLOCK FALSE
INVARIANT InstalledIsFound
