SPECIFICATION FairSpec
CONSTANTS
  s1 = s1
  s2 = s2
  Sessions = {s1, s2}
  NoSession = NoSession
  NoSubject = NoSubject
  NoEvent = NoEvent
  Events = {1, 3, 10}
  Malformed = {}
  StopIds <- MCStopIds
  RouteIds <- MCRouteIds
  EventType <- MCEventType
  EventSubject <- MCEventSubject
  Spelling <- MCSpelling
  SeedStops <- MCSeedStops
  Routes <- MCRoutes
  LockKeys <- MCLockKeys
  LockKey <- MCLockKey
  Clusters <- BundleClusters
  MaxRuns = 1
  MaxFaults = 1
PROPERTY RunsEnd
CHECK_DEADLOCK FALSE
