\* A worker whose lock may expire while it runs or outlive it, and the endpoint without
\* a lock; batches of one event, two faults or retries.
SPECIFICATION FairSpec
CONSTANTS
  e1 = e1
  e2 = e2
  a1 = a1
  k1 = k1
  NoOne = NoOne
  NoEvent = NoEvent
  Events = {e1, e2}
  EventType <- MCPremiumThenUpdate
  Aggregate <- MCAggregate
  OccurredAt <- MCOccurredAt
  Articles = {a1}
  Users = {u1}
  Dispatchers = {w1, admin}
  Workers = {w1}
  LockKeys = {k1}
  LockKey <- MCOneName
  RedisEnabled = TRUE
  Limit = 1
  MaxDisturbances = 2
PROPERTIES
  PendingIsPublished
  RunsEnd
