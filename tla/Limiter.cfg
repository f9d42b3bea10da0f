SPECIFICATION MCSpec
CONSTANTS
  Pairs = {p1, p2, p3}
  WindowSeconds = 2
  MaxRequests = 1
  MaxBuckets = 2
  Second = 2
  NoBucket = NoBucket
  MaxTime = 9
INVARIANTS LimiterTypeOK TableBounded NeverTwiceTheLimit FullMeansRecent WaitIsLongEnough
CHECK_DEADLOCK FALSE
