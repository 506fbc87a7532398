CONSTANTS
  Threads = {t1, t2}
  messageIteration = 2
  FdLimit = 4
  MaxCrashes = 2
  Free = Free
SPECIFICATION FairSpec
INVARIANTS TypeOK MessagesDistinct InStep SurvivesReset DescriptorsAccounted
PROPERTIES Finishes
