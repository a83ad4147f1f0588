\* A checkout, its webhooks delivered by two requests at a time, and manual
\* changes; the system stops when time and identifiers are used up.
SPECIFICATION FairSpec
CONSTANTS
  s1 = s1
  w1 = w1
  Users = {u1}
  NoUser = NoUser
  Subs = {s1, s2}
  NoSub = NoSub
  Webhooks = {w1, w2}
  NoWebhook = NoWebhook
  Outcome <- MCOutcome
  Reference <- MCReference
  Requests = {r1, r2}
  NoRequest = NoRequest
  Duration = 1
  MaxTime = 1
  MaxFailures = 1
CHECK_DEADLOCK FALSE
INVARIANTS
  ActiveIsPaid
  WebhookTakesEffectOnce
PROPERTIES
  RequestsEnd
