\* Two workers of one name whose Redis lock may expire while they run, two events of one
\* article, against the abstract delivery.
SPECIFICATION Spec
CONSTANTS
  e1 = e1
  e2 = e2
  a1 = a1
  k1 = k1
  NoOne = NoOne
  NoEvent = NoEvent
  Events = {e1, e2}
  EventType <- MCPremiumThenUpdate
  Aggregate <- MCAggregate
  OccurredAt <- MCOccurredAt
  Articles = {a1}
  Users = {u1, u2}
  Dispatchers = {w1, w2}
  Workers = {w1, w2}
  LockKeys = {k1}
  LockKey <- MCOneName
  RedisEnabled = TRUE
  Limit = 2
  MaxDisturbances = 2
INVARIANTS
  EffectOncePerConsumer
  NoStrandedInbox
  AllConsumersTogether
  NotificationsMatchBatch
  RowLockOwner
  OverlapOnlyAfterExpiry
PROPERTIES
  StaleHolderKeepsOff
  DeliversEachEventOnce
