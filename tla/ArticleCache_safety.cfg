\* A visitor and readers with and without a subscription read while an article is
\* published and changed;
\* MaxRequests and MaxRefusals stop the editors and the refused readers.
SPECIFICATION FairCacheSpec
CONSTANTS
  Articles = {a1}
  NoArticle = NoArticle
  Requests = {r1}
  NoRequest = NoRequest
  Updates <- MCUpdates
  MaxRequests = 3
  MaxFailures = 0
  Visitors = {v1}
  Subscribers = {s1}
  Registered = {g1}
  NoEntry = NoEntry
  MaxRefusals = 2
  MaxRedisErrors = 1
CHECK_DEADLOCK FALSE
INVARIANTS
  CachedPremiumIsPreview
  PreviewsAreReported
PROPERTIES
  PagesCatchUp
