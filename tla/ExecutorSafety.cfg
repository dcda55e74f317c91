SPECIFICATION Spec
CONSTANTS
  s1 = s1
  s2 = s2
  Sessions = {s1, s2}
  NoSession = NoSession
  NoSubject = NoSubject
  NoEvent = NoEvent
  Events = {3, 4, 5, 6}
  Malformed = {}
  StopIds <- MCStopIds
  RouteIds <- MCRouteIds
  EventType <- MCEventType
  EventSubject <- MCEventSubject
  Spelling <- MCSpelling
  SeedStops <- MCSeedStops
  Routes <- MCRoutes
  LockKeys <- MCLockKeys
  LockKey <- MCLockKey
  Clusters <- MCClusters
  MaxRuns = 0
  MaxFaults = 1
INVARIANTS TypeOK ExclusiveEvaluation NoLeakedLock NoDuplicateStop
PROPERTY Atomicity
CHECK_DEADLOCK FALSE
