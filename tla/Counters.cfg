CONSTANTS
  Threads = {t1, t2, t3}
  Iterations = 2
  Free = Free
  Unset = Unset
SPECIFICATION FairSpec
PROPERTIES PrintsTotal
