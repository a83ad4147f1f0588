\* Two requests at a time for one article; MaxRequests stops the system.
SPECIFICATION FairSpec
CONSTANTS
  Articles = {a1}
  NoArticle = NoArticle
  Requests = {r1, r2}
  NoRequest = NoRequest
  Updates <- MCUpdates
  MaxRequests = 4
  MaxFailures = 1
CHECK_DEADLOCK FALSE
INVARIANTS
  LastEventTellsStatus
  PublishedInThePast
  TextsAreInRevisions
PROPERTIES
  EditsAreNotLost
  RequestsEnd
