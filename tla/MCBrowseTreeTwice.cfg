SPECIFICATION Spec
CONSTANTS
  b = b  x = x  y = y  home = home  docs = docs
  c1 = c1 c2 = c2 c3 = c3
  Folders <- MCFolders
  Sub <- MCSub
  FirstPage <- MCFirstPage
  Long <- MCLong
  Buckets <- MCBuckets
  Typeable <- MCTypeable
  LocalFolders <- MCLocalFolders
  LocalSub <- MCLocalSub
  Crawls = {c1, c2, c3}
  MaxDepth = 0
  MaxRequests = 2
  Concurrency = 1
  MaxRefreshes = 1
  Unlisted = Unlisted
  MaxActs = 4
  S3 = S3
  None = None
INVARIANT EveryFailureShows
CHECK_DEADLOCK FALSE
