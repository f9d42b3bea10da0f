SPECIFICATION Spec
CONSTANTS
  Origins = {o1}
  Tabs = {t1}
  Lifetime = 1
  Retention = 1
  MaxRecords = 2
  None = None
  ChallengeAge = 1
  SessionAge = 3
  MaxSessions = 2
  MaxActive = 1
  MaxTime = 3
  MaxLoads = 2
  MaxRequests = 2
  MaxFaults = 1
INVARIANTS MailboxTypeOK ProofsAreOfTheKey OneRequestAtATime OneLoginPerApproval PageHearsItsOwnAnswer
PROPERTIES DecisionsStand TabsAreFreeAgain
CHECK_DEADLOCK FALSE
