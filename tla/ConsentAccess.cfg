\* What sessions of approved and of reused grants give, until when and for what purpose.
SPECIFICATION Spec
CONSTANTS
  None = None
  Gone = Gone
  r1 = r1
  r2 = r2
  r3 = r3
  w1 = w1
  w2 = w2
  p1 = p1
  s1 = s1
  shop = shop
  news = news
  a = a
  b = b
  Profile = {p1}
  Site = {s1}
  Purpose = {shop, news}
  Scope = {a, b}
  Request = {r1, r2, r3}
  Challenge = {c1, c2}
  Session = {x1}
  Event = {e1}
  Worker = {w1}
  Ask <- AskPurposes
  Allowed <- AllowedAll
  Serves <- ServesAccess
  Signed = {"approve"}
  GrantUntil <- HourOrDefault
  SessionUntil <- Default
  ChallengeTTL = 1
  GrantTTL = 2
  SessionTTL = 2
  MaxFeedback = 1
  MaxTime = 1
SYMMETRY Interchangeable
PROPERTIES UseWithinConsent ApprovalSpendsItsProof KeepsThePromise
CHECK_DEADLOCK FALSE
