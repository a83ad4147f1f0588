\* Two manual activations of one user at the same time.
SPECIFICATION Spec
CONSTANTS
  s1 = s1
  w1 = w1
  Users = {u1}
  NoUser = NoUser
  Subs = {s1, s2}
  NoSub = NoSub
  Webhooks = {w1}
  NoWebhook = NoWebhook
  Outcome <- MCOutcome
  Reference <- MCReference
  Requests = {r1, r2}
  NoRequest = NoRequest
  Duration = 1
  MaxTime = 0
  MaxFailures = 0
CHECK_DEADLOCK FALSE
PROPERTIES
  ActivationEndsTheOthers
