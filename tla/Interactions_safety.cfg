SPECIFICATION FairSpec
CONSTANTS
  u1 = u1
  a1 = a1
  g1 = g1
  Users = {u1}
  NoUser = NoUser
  Comments = {c1}
  Ads = {a1, a2}
  NoRow = NoRow
  Categories = {g1}
  Category = g1
  Articles <- MCArticles
  FirstArticle <- MCFirst
  ReactionTypes = {"like", "love"}
  Moderations = {"approved", "hidden"}
  FirstAd <- MCFirstAd
  AdCreations <- MCCreations
  AdUpdates <- MCUpdates
  Now = 1
  PoolSize = 2
  Requests = {r1, r2}
  NoRequest = NoRequest
  MaxRequests = 3
  MaxChanges = 1
CHECK_DEADLOCK FALSE
INVARIANTS
  OneLateImpression
  LogBreaksOnlyByOverlap
PROPERTIES
  TargetsOfOneUpdate
  RequestsEnd
