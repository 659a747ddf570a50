SPECIFICATION FairRegSpec
CONSTANTS
  Clients = {"ann"}
  Readers = {"r1", "r2"}
  Writers = {"q1", "q2", "w1", "w2"}
  Requests = {"q1", "q2"}
  Passwords = {"p1", "p2"}
  MaxCommits = 2
INVARIANTS
  RegTypeOK
  ActiveIsComplete
  PasswordOfItsRegistration
  StaleForAReason
PROPERTIES
  StaleEntriesGo
CHECK_DEADLOCK FALSE
