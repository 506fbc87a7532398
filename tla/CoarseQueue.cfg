CONSTANTS
  Producers = {p1, p2}
  Consumers = {c1, c2}
  Iterations = 2
  MaxSpurious = 1
  Nothing = Nothing
  Free = Free
SPECIFICATION FairSpec
INVARIANTS TypeOK NoLostWakeup
PROPERTIES ImplementsQueue Terminates
