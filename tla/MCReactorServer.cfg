CONSTANTS
  c1 = c1
  c2 = c2
  c3 = c3
  Clients <- MCClients
  FdLimit = 2
  MaxSends <- MCMaxSends
  None = None
SPECIFICATION FairSpec
INVARIANTS TypeOK TableExact LiveWatched BatchFresh
PROPERTIES Answered Stops
