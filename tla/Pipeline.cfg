SPECIFICATION FairSpec
CONSTANTS
  dir = dir
  up = up
  f = f
  pipe = pipe
  gone = gone
  Node <- SomeNodes
  Kind <- SomeKinds
  Entries <- SomeEntries
  Inputs <- SomeInputs
  FirstCapacity = 1
  MaxPath = 2
  MaxFailures = 1
  ArchivePaths <- SomeNames
  NameLimit = 2
  Password = {p, q}
  MaxCommands = 3
INVARIANTS
  ListedPathsExist
  ExpandFindsEveryFile
  AlwaysRecoverable
  UnpackOpensWhatWasSealed
  UnpackRestoresThePack
PROPERTIES
  CommandEnds
