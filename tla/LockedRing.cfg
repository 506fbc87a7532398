CONSTANTS
  Size = 3
  Pushes = 7
  Indeterminate = Indeterminate
SPECIFICATION Spec
INVARIANTS PopTakesNewest FifoWhenPaced
