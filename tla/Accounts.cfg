SPECIFICATION FairSpec
CONSTANTS
  u1 = u1
  u2 = u2
  u3 = u3
  r1 = r1
  r2 = r2
  r3 = r3
  alice = alice
  root = root
  alice_a = alice_a
  alice_b = alice_b
  UserIds = {u1, u2, u3}
  Founders = {u1}
  Emails = {alice_a, alice_b}
  Names = {alice, root}
  LocalPart <- MCLocalPart
  Nobody = Nobody
  Absent = Absent
  Requests = {r1, r2, r3}
INVARIANTS TypeOK OneAccountPerEmail SessionsAreOwn
PROPERTIES RefusedOnlyWithoutAccount RequestsEnd
CHECK_DEADLOCK FALSE
