\* A revocation between the two writes of a stored-grant reuse.
SPECIFICATION Spec
CONSTANTS
  None = None
  Gone = Gone
  r1 = r1
  r2 = r2
  r3 = r3
  w1 = w1
  w2 = w2
  p1 = p1
  s1 = s1
  shop = shop
  news = news
  a = a
  b = b
  Profile = {p1}
  Site = {s1}
  Purpose = {shop}
  Scope = {a, b}
  Request = {r1, r2}
  Challenge = {c1, c2}
  Session = {}
  Event = {}
  Worker = {w1, w2}
  Ask <- AskReuse
  Allowed <- AllowedAll
  Serves <- ServesReuse
  Signed = {"approve", "revoke"}
  GrantUntil <- Default
  SessionUntil <- Default
  ChallengeTTL = 1
  GrantTTL = 1
  SessionTTL = 1
  MaxFeedback = 1
  MaxTime = 1
INVARIANTS RevokedNeverLive
CHECK_DEADLOCK FALSE
