CONSTANTS
  b = b
  x = x
  y = y
  z = z
  p = p
  q = q
  c1 = c1
  c2 = c2
  Unlisted = Unlisted
  Folders <- MCFolders
  Sub <- MCSub
  FirstPage <- MCFirstPage
  Long <- MCLong
  Roots <- MCRoots
  Crawls <- OneCrawl
  MaxDepth = 2
  MaxRequests = 3
  Concurrency = 2
  MaxRefreshes = 1
SPECIFICATION Spec
INVARIANT RefreshRelists
CHECK_DEADLOCK FALSE
