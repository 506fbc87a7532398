CONSTANTS
  Size = 3
  Pushes = 7
  Indeterminate = Indeterminate
SPECIFICATION FairSpec
INVARIANTS TypeOK RaceFree FailsOnlyAtTheLimit
PROPERTIES ImplementsQueue Terminates
