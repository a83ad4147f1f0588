\* docs/EVENT_DRIVEN_ARCHITECTURE.md: what a failed event has.
SPECIFICATION Spec
CONSTANTS
  e1 = e1
  e2 = e2
  a1 = a1
  k1 = k1
  NoOne = NoOne
  NoEvent = NoEvent
  Events = {e1}
  EventType <- MCPremiumThenUpdate
  Aggregate <- MCAggregate
  OccurredAt <- MCOccurredAt
  Articles = {a1}
  Users = {u1}
  Dispatchers = {w1, admin}
  Workers = {w1}
  LockKeys = {k1}
  LockKey <- MCOneName
  RedisEnabled = TRUE
  Limit = 2
  MaxDisturbances = 2
PROPERTY
  FailedEventIsRecorded
