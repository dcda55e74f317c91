SPECIFICATION Spec
CONSTANTS
  Readers = {r1}
  Lists = {"stops", "routes"}
  Ids <- MCIds
  Initial <- MCInitial
  DEFAULT_PAGE_SIZE = 2
  MAX_PAGE_SIZE = 3
  Missing = Missing
  Malformed = Malformed
  SizeParams = {Missing, Malformed, 0, 1, 3, 4}
  PageParams = {Missing, Malformed, 0, 1}
INVARIANTS TypeOK WalkIsComplete RepeatsNeedInserts
CHECK_DEADLOCK FALSE
