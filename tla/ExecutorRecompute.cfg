SPECIFICATION Spec
CONSTANTS
  s1 = s1
  s2 = s2
  Sessions = {s1, s2}
  NoSession = NoSession
  NoSubject = NoSubject
  NoEvent = NoEvent
  Events = {1, 9, 11, 12, 13}
  Malformed = {11}
  StopIds <- MCStopIds
  RouteIds <- MCRouteIds
  EventType <- MCEventType
  EventSubject <- MCEventSubject
  Spelling <- MCSpelling
  SeedStops <- TwoSeedStops
  Routes <- MCRoutes
  LockKeys <- MCLockKeys
  LockKey <- CollidingLockKey
  Clusters <- BundleClusters
  MaxRuns = 2
  MaxFaults = 0
INVARIANTS JobReadsItsCause SuccessIsComplete RoutesAfterAllStops
CHECK_DEADLOCK FALSE
