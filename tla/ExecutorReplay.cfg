SPECIFICATION Spec
CONSTANTS
  s1 = s1
  s2 = s2
  Sessions = {s1, s2}
  NoSession = NoSession
  NoSubject = NoSubject
  NoEvent = NoEvent
  Events = {1, 2}
  Malformed = {}
  StopIds <- MCStopIds
  RouteIds <- MCRouteIds
  EventType <- MCEventType
  EventSubject <- MCEventSubject
  Spelling <- MCSpelling
  SeedStops <- MCSeedStops
  Routes <- MCRoutes
  LockKeys <- MCLockKeys
  LockKey <- MCLockKey
  Clusters <- MCClusters
  MaxRuns = 1
  MaxFaults = 0
PROPERTY ReplaySucceeds
CHECK_DEADLOCK FALSE
