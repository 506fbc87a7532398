CONSTANTS
  Size = 3
  Pushes = 7
  IntMax = 7
  Indeterminate = Indeterminate
SPECIFICATION FairSpec
INVARIANTS TypeOK RaceFree
PROPERTIES ImplementsQueue Terminates
