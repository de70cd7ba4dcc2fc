\* Four calls: two builds racing, a clear between them, and one more; a
\* superseded build may hold the lock while the one after it waits.
CONSTANT MaxRequests = 4
SPECIFICATION Spec
INVARIANT TypeOK
INVARIANT ClearedStaysCleared
INVARIANT StatusTells
PROPERTY KeepsPromise
PROPERTY LatestRequestLands
CHECK_DEADLOCK FALSE
