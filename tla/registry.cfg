CONSTANTS
  file = file
  process = process
  pair = pair
  single = single
  broken = broken
  Module <- MCModule
  Keyword <- MCKeyword
  Decl <- MCDecl
  Builtins <- MCBuiltins
  Ptr = {s1, s2, s3, s4}
  Null = Null
  FirstCapacity = 2
  MaxInits = 2
  MaxListed = 3
SYMMETRY Addresses
SPECIFICATION Spec
CHECK_DEADLOCK FALSE
INVARIANTS TypeOK VectorOwnsStubs ListedIsInstalled
PROPERTY NeverRebinds
