SPECIFICATION FairSpec
CONSTANTS
  Users = {u1}
  Requests = {r1, r2}
  NoUser = NoUser
  NoRequest = NoRequest
  MaxArrivals = 4
  MaxFailures = 1
INVARIANTS TypeOK SuccessorIsOwn DeletionCoversItsPast
PROPERTIES DeadTokensStayDead DeletionIsFinal ExportIsComplete RequestsEnd
CHECK_DEADLOCK FALSE
