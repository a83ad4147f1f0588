\* A visitor has read an article that is then changed; Redis works.
SPECIFICATION CacheSpec
CONSTANTS
  Articles = {a1}
  NoArticle = NoArticle
  Requests = {r1}
  NoRequest = NoRequest
  Updates <- MCUpdates
  MaxRequests = 3
  MaxFailures = 0
  Visitors = {v1}
  Subscribers = {}
  Registered = {}
  NoEntry = NoEntry
  MaxRefusals = 1
  MaxRedisErrors = 0
CHECK_DEADLOCK FALSE
PROPERTIES
  InvalidationDropsPages
