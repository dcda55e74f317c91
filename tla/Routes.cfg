SPECIFICATION Spec
CONSTANTS
  ra = ra
  rb = rb
  sa = sa
  sb = sb
  p1 = p1
  p2 = p2
  p3 = p3
  v1 = v1
  Events = {1, 2, 3, 4, 5, 6, 7}
  Routes = {ra, rb}
  NoRoute = NoRoute
  Stops = {sa, sb}
  People = {p1, p2, p3}
  Days = {1, 2, 3}
  EventRoute <- MCEventRoute
  EventStops <- MCEventStops
  EventPerson <- MCEventPerson
  EventDay <- MCEventDay
  Evaluators = {v1}
INVARIANTS TypeOK CanonicalVerdictsAreTrue StaleVerdictsHold
PROPERTY MoreEvidenceKeepsTruth
CHECK_DEADLOCK FALSE
