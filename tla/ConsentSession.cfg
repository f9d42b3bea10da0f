\* Exchanging a grant for sessions and using them, against revocation and deletion.
SPECIFICATION Spec
CONSTANTS
  None = None
  Gone = Gone
  r1 = r1
  r2 = r2
  r3 = r3
  w1 = w1
  w2 = w2
  p1 = p1
  s1 = s1
  shop = shop
  news = news
  a = a
  b = b
  Profile = {p1}
  Site = {s1}
  Purpose = {shop}
  Scope = {a}
  Request = {r1}
  Challenge = {c1, c2, c3}
  Session = {x1, x2}
  Event = {e1, e2}
  Worker = {w1, w2}
  Ask <- AskOne
  Allowed <- AllowedAll
  Serves <- ServesSession
  Signed = {"approve", "revoke", "delete"}
  GrantUntil <- Default
  SessionUntil <- Default
  ChallengeTTL = 1
  GrantTTL = 2
  SessionTTL = 1
  MaxFeedback = 1
  MaxTime = 2
SYMMETRY Interchangeable
INVARIANTS TypeOK ProofMintsOneSession NoAccessAcrossDeletion FeedbackWithinBudget
PROPERTIES RevocationBlocksUse KeepsThePromise
CHECK_DEADLOCK FALSE
