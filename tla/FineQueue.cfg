CONSTANTS
  Producers = {p1, p2, p3}
  Consumers = {c1, c2}
  Iterations = 1
  Nodes = {n1, n2, n3, n4}
  Nothing = Nothing
  Free = Free
  Null = Null
SPECIFICATION FairSpec
INVARIANTS TypeOK NoUseAfterFree
PROPERTIES ImplementsQueue Terminates
