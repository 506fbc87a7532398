CONSTANTS
  Producers = {p1, p2}
  Consumers = {c1, c2}
  Iterations = 1
  Nodes = {n1, n2, n3}
  Nothing = Nothing
  Free = Free
  Null = Null
SPECIFICATION Spec
INVARIANTS NoRaceOnNext
