SPECIFICATION Spec
CONSTANTS
  b1 = b1
  b2 = b2
  b3 = b3
  bad = bad
  c1 = c1
  c2 = c2
  u1 = u1
  u2 = u2
  k1 = k1
  h1 = h1
  h2 = h2
  w1 = w1
  w2 = w2
  NoKey = NoKey
  NoBody = NoBody
  Submissions <- MixedSubmissions
  ClientId <- MCClientId
  Invalid = {bad}
  Handlers = {h1, h2}
  WorkerOf <- TwoWorkers
  JwtByDefault = TRUE
  MaxDuplicates = 1
  MaxFailures = 1
INVARIANTS TypeOK OneEventPerClientId AnswersAreTrue CreatedOnce DeletedHearOnlyReplays 
CHECK_DEADLOCK FALSE
